---- MODULE Spec2Model ----
(***************************************************************************)
(* Model of the neocalc-core evaluation engine: the Context (scope stack   *)
(* and user-function table, engine/ast.rs), Expr::eval with its iterative  *)
(* left-spine walk, and the function registry it falls back to             *)
(* (engine/functions).                                                     *)
(*                                                                         *)
(* Expr::eval runs to completion inside one host call, so one evaluation   *)
(* is one action.  The steps the code takes inside it (argument            *)
(* evaluation, arity check, push_scope, define_var, the body, pop_scope,   *)
(* get_var, set_var, functions.insert, functions::apply) are recorded in   *)
(* order in a history log, kept in the variable last, so that properties   *)
(* of what happens during an evaluation can be stated on reachable states. *)
(*                                                                         *)
(* Further sections model the Number tower (engine/types.rs), the lexer    *)
(* and parser (engine/tokens.rs, engine/parser.rs) and the                 *)
(* AppSessionManager (session_manager.rs), whose calls take the state      *)
(* mutex and are made from several threads.                                *)
(***************************************************************************)
EXTENDS Integers, Sequences, FiniteSets, TLC

VARIABLES scopes, functions, last, state, threads, disk

vars == <<scopes, functions, last, state, threads, disk>>

\* The AppSessionManager (its Mutex<AppState>), the threads calling it and
\* the file at its storage path; the engine alone uses none of them.
manager == <<state, threads, disk>>

(***************************************************************************)
(* Bounds of the model.                                                    *)
(***************************************************************************)
\* Nested user-function calls up to which a recursion is followed, step by
\* step; Expr::eval itself has no limit.
MaxCallDepth == 3
\* Scopes a host may hold open through push_scope outside an evaluation.
MaxScopes == 2
\* Sessions a manager holds at most.
MaxSessions == 3
\* Calls one thread makes.
MaxCalls == 2

(***************************************************************************)
(* Values: Number, Result, Option.                                         *)
(***************************************************************************)
Integer(n) == [t |-> "Integer", v |-> n]

Ok(v) == [ok |-> TRUE, val |-> v]
Err(e) == [ok |-> FALSE, val |-> e]

UndefinedVariable(name) == [e |-> "UndefinedVariable", name |-> name]
ArgumentMismatch(name, n) == [e |-> "ArgumentMismatch", name |-> name, n |-> n]
UnknownFunction(name) == [e |-> "UnknownFunction", name |-> name]
DomainError(msg) == [e |-> "DomainError", msg |-> msg]

\* Not an EngineError: an arithmetic operator panicked during the
\* evaluation and the thread unwound; nothing is returned to the caller.
Panicked(msg) == [e |-> "Panicked", msg |-> msg]

None == <<>>
Some(v) == <<v>>

(***************************************************************************)
(* Expr                                                                    *)
(***************************************************************************)
Literal(n) == [k |-> "Literal", n |-> n]
Variable(name) == [k |-> "Variable", name |-> name]
BinaryOp(op, lhs, rhs) == [k |-> "BinaryOp", op |-> op, lhs |-> lhs, rhs |-> rhs]
UnaryOp(op, expr) == [k |-> "UnaryOp", op |-> op, expr |-> expr]
FunctionCall(name, args) == [k |-> "FunctionCall", name |-> name, args |-> args]
Assignment(name, expr) == [k |-> "Assignment", name |-> name, expr |-> expr]
FunctionDef(name, params, body) ==
    [k |-> "FunctionDef", name |-> name, params |-> params, body |-> body]

UserFunction(params, body) == [params |-> params, body |-> body]

(***************************************************************************)
(* HashMap                                                                 *)
(***************************************************************************)
EmptyMap == [n \in {} |-> 0]

MapInsert(m, key, value) ==
    [n \in (DOMAIN m) \cup {key} |-> IF n = key THEN value ELSE m[n]]

(***************************************************************************)
(* Context.  A context is a record with the fields scopes (innermost last) *)
(* and functions; the operators below change only those fields, so they    *)
(* also apply to the evaluation state, which carries the history log.       *)
(***************************************************************************)
ContextNew == [scopes |-> <<EmptyMap>>, functions |-> EmptyMap]

RECURSIVE FindRev(_, _, _)
\* scopes.iter().rev(): the index of the first scope, from index i down,
\* that holds name; 0 when none does.
FindRev(ss, name, i) ==
    IF i = 0 THEN 0
    ELSE IF name \in DOMAIN ss[i] THEN i
    ELSE FindRev(ss, name, i - 1)

get_var(c, name) ==
    LET i == FindRev(c.scopes, name, Len(c.scopes))
    IN  IF i = 0 THEN None ELSE Some(c.scopes[i][name])

\* set_var that never searches: the binding always goes to the innermost scope.
set_var_innermost(c, name, value) ==
    IF Len(c.scopes) > 0
    THEN [c EXCEPT !.scopes[Len(c.scopes)] = MapInsert(@, name, value)]
    ELSE c

\* set_var whose fallback defines the new binding in the global scope
\* (scopes.first_mut()) instead of the innermost one.
set_var_global_fallback(c, name, value) ==
    LET i == FindRev(c.scopes, name, Len(c.scopes))
    IN  IF i # 0
        THEN [c EXCEPT !.scopes[i] = MapInsert(@, name, value)]
        ELSE IF Len(c.scopes) > 0
             THEN [c EXCEPT !.scopes[1] = MapInsert(@, name, value)]
             ELSE c

set_var(c, name, value) ==
    LET i == FindRev(c.scopes, name, Len(c.scopes))
    IN  IF i # 0
        THEN [c EXCEPT !.scopes[i] = MapInsert(@, name, value)]
        ELSE IF Len(c.scopes) > 0
             THEN [c EXCEPT !.scopes[Len(c.scopes)] = MapInsert(@, name, value)]
             ELSE c

\* define_var that updates an existing binding found anywhere in the chain.
define_var_update(c, name, value) ==
    LET i == FindRev(c.scopes, name, Len(c.scopes))
    IN  IF i # 0
        THEN [c EXCEPT !.scopes[i] = MapInsert(@, name, value)]
        ELSE IF Len(c.scopes) > 0
             THEN [c EXCEPT !.scopes[Len(c.scopes)] = MapInsert(@, name, value)]
             ELSE c

define_var(c, name, value) ==
    IF Len(c.scopes) > 0
    THEN [c EXCEPT !.scopes[Len(c.scopes)] = MapInsert(@, name, value)]
    ELSE c

push_scope(c) == [c EXCEPT !.scopes = Append(@, EmptyMap)]

\* pop_scope without its length guard.
pop_scope_unguarded(c) == [c EXCEPT !.scopes = SubSeq(@, 1, Len(@) - 1)]

pop_scope(c) ==
    IF Len(c.scopes) > 1
    THEN [c EXCEPT !.scopes = SubSeq(@, 1, Len(@) - 1)]
    ELSE c

(***************************************************************************)
(* Number (engine/types.rs).  Integer is a BigInt: an unbounded integer.   *)
(* Rational is a BigRational: numerator n and denominator d in lowest      *)
(* terms with d > 0.  Float is an f64 and Complex a pair of f64.           *)
(*                                                                         *)
(* An f64 is NaN, an infinity, or a finite value: a sign and a magnitude   *)
(* n/d in lowest terms, so that +0.0 and -0.0 are two values.  The finite  *)
(* values of the model are dyadic (d a power of two) and small, which f64  *)
(* holds exactly, so f64 arithmetic on them rounds nothing; a conversion   *)
(* or a quotient that would have to round is outside the model and has no  *)
(* value here.                                                             *)
(***************************************************************************)
Abs(x) == IF x < 0 THEN 0 - x ELSE x

RECURSIVE Gcd(_, _)
Gcd(a, b) == IF b = 0 THEN a ELSE Gcd(b, a % b)

RECURSIVE IsPow2(_)
IsPow2(d) == d = 1 \/ (d > 1 /\ d % 2 = 0 /\ IsPow2(d \div 2))

\* Remainder of truncated division, as % on BigInt: the sign of the dividend.
TruncRem(a, b) == IF a >= 0 THEN a % Abs(b) ELSE 0 - ((0 - a) % Abs(b))

\* A panic of the operation: the thread unwinds and no Number is returned.
Panic(msg) == [t |-> "Panic", msg |-> msg]

NaN == [c |-> "nan"]
Infinity(neg) == [c |-> "inf", neg |-> neg]
Finite(neg, n, d) ==
    LET g == Gcd(n, d)
    IN  [c |-> "fin", neg |-> neg, n |-> n \div g, d |-> d \div g]

\* A value computed by a libm routine (powf, powc), not computed here.
Libm(fn, x, y) == [c |-> "libm", fn |-> fn, x |-> x, y |-> y]

\* to_f64 of the exact value n/d, d > 0.
F64FromRatio(n, d) ==
    CASE IsPow2(d \div Gcd(Abs(n), d)) -> Finite(n < 0, Abs(n), d)

F64IsZero(x) == x.c = "fin" /\ x.n = 0

\* The numerator of a finite f64, with its sign.
F64Num(x) == IF x.neg THEN 0 - x.n ELSE x.n

\* x == y on f64
F64Eq(x, y) ==
    IF x.c = "nan" \/ y.c = "nan" THEN FALSE
    ELSE IF F64IsZero(x) /\ F64IsZero(y) THEN TRUE
    ELSE x = y

\* x < y on f64, neither NaN
F64Lt(x, y) ==
    IF x.c = "inf" THEN x.neg /\ ~(y.c = "inf" /\ y.neg)
    ELSE IF y.c = "inf" THEN ~y.neg
    ELSE F64Num(x) * y.d < F64Num(y) * x.d

F64PartialCmp(x, y) ==
    IF x.c = "nan" \/ y.c = "nan" THEN None
    ELSE IF F64Eq(x, y) THEN Some("Equal")
    ELSE IF F64Lt(x, y) THEN Some("Less")
    ELSE Some("Greater")

F64Neg(x) == IF x.c = "nan" THEN NaN ELSE [x EXCEPT !.neg = ~@]

F64Add(x, y) ==
    IF x.c = "nan" \/ y.c = "nan" THEN NaN
    ELSE IF x.c = "inf" /\ y.c = "inf" THEN (IF x.neg = y.neg THEN x ELSE NaN)
    ELSE IF x.c = "inf" THEN x
    ELSE IF y.c = "inf" THEN y
    ELSE LET s == F64Num(x) * y.d + F64Num(y) * x.d
         IN  IF s = 0
             THEN Finite(x.neg /\ y.neg, 0, 1)
             ELSE Finite(s < 0, Abs(s), x.d * y.d)

F64Sub(x, y) == F64Add(x, F64Neg(y))

F64Mul(x, y) ==
    IF x.c = "nan" \/ y.c = "nan" THEN NaN
    ELSE IF (x.c = "inf" /\ F64IsZero(y)) \/ (y.c = "inf" /\ F64IsZero(x)) THEN NaN
    ELSE IF x.c = "inf" \/ y.c = "inf" THEN Infinity(x.neg # y.neg)
    ELSE Finite(x.neg # y.neg, x.n * y.n, x.d * y.d)

F64Div(x, y) ==
    IF x.c = "nan" \/ y.c = "nan" THEN NaN
    ELSE IF x.c = "inf" /\ y.c = "inf" THEN NaN
    ELSE IF F64IsZero(x) /\ F64IsZero(y) THEN NaN
    ELSE IF x.c = "inf" THEN Infinity(x.neg # y.neg)
    ELSE IF y.c = "inf" THEN Finite(x.neg # y.neg, 0, 1)
    ELSE IF F64IsZero(y) THEN Infinity(x.neg # y.neg)
    ELSE LET n == x.n * y.d
             d == x.d * y.n
         IN  CASE IsPow2(d \div Gcd(n, d)) -> Finite(x.neg # y.neg, n, d)

\* x % y on f64 (fmod): exact, with the sign of x.
F64Rem(x, y) ==
    IF x.c = "nan" \/ y.c = "nan" THEN NaN
    ELSE IF x.c = "inf" THEN NaN
    ELSE IF F64IsZero(y) THEN NaN
    ELSE IF y.c = "inf" THEN x
    ELSE Finite(x.neg, (x.n * y.d) % (y.n * x.d), x.d * y.d)

Complex64(re, im) == [re |-> re, im |-> im]

Complex64Add(l, r) == Complex64(F64Add(l.re, r.re), F64Add(l.im, r.im))
Complex64Sub(l, r) == Complex64(F64Sub(l.re, r.re), F64Sub(l.im, r.im))
Complex64Mul(l, r) ==
    Complex64(F64Sub(F64Mul(l.re, r.re), F64Mul(l.im, r.im)),
              F64Add(F64Mul(l.re, r.im), F64Mul(l.im, r.re)))
Complex64DivBy(re, im, norm_sqr) == Complex64(F64Div(re, norm_sqr), F64Div(im, norm_sqr))
Complex64Div(l, r) ==
    Complex64DivBy(F64Add(F64Mul(l.re, r.re), F64Mul(l.im, r.im)),
                   F64Sub(F64Mul(l.im, r.re), F64Mul(l.re, r.im)),
                   F64Add(F64Mul(r.re, r.re), F64Mul(r.im, r.im)))
Complex64Neg(c) == Complex64(F64Neg(c.re), F64Neg(c.im))

Rational(n, d) == [t |-> "Rational", n |-> n, d |-> d]
Float(f) == [t |-> "Float", v |-> f]
Complex(c) == [t |-> "Complex", re |-> c.re, im |-> c.im]

\* The Complex64 inside a Number::Complex.
Inner(n) == Complex64(n.re, n.im)

\* BigRational::new(numer, denom): lowest terms, positive denominator.
RatioNew(numer, denom) ==
    IF denom = 0
    THEN Panic("denominator == 0")
    ELSE LET g == Gcd(Abs(numer), Abs(denom))
             s == IF denom < 0 THEN 0 - 1 ELSE 1
         IN  Rational(s * (numer \div g), s * (denom \div g))

from_integer(i) == Rational(i, 1)

RatioAdd(l, r) == RatioNew(l.n * r.d + r.n * l.d, l.d * r.d)
RatioSub(l, r) == RatioNew(l.n * r.d - r.n * l.d, l.d * r.d)
RatioMul(l, r) == RatioNew(l.n * r.n, l.d * r.d)
\* l / r on BigRational: Ratio::new on the cross products, which panics on a
\* zero divisor.
RatioDiv(l, r) == RatioNew(l.n * r.d, l.d * r.n)
RatioRem(l, r) ==
    IF r.n = 0
    THEN Panic("attempt to divide by zero")
    ELSE RatioNew(TruncRem(l.n * r.d, r.n * l.d), l.d * r.d)
RatioCmp(l, r) ==
    IF l.n * r.d = r.n * l.d THEN "Equal"
    ELSE IF l.n * r.d < r.n * l.d THEN "Less" ELSE "Greater"

IntegerCmp(l, r) == IF l = r THEN "Equal" ELSE IF l < r THEN "Less" ELSE "Greater"

\* l % r on BigInt
IntegerRem(l, r) ==
    IF r = 0 THEN Panic("attempt to divide by zero") ELSE Integer(TruncRem(l, r))

RECURSIVE IntegerPow(_, _)
\* b.pow(e) on BigInt, e: u32
IntegerPow(b, e) == IF e = 0 THEN 1 ELSE b * IntegerPow(b, e - 1)

\* BigInt::to_u32: every non-negative integer of the model is below 2^32.
to_u32(i) == IF i >= 0 THEN Some(i) ELSE None

to_f64(n) ==
    CASE n.t = "Integer" -> Some(F64FromRatio(n.v, 1))
      [] n.t = "Rational" -> Some(F64FromRatio(n.n, n.d))
      [] n.t = "Float" -> Some(n.v)
      [] n.t = "Complex" ->
            IF F64Eq(n.im, Finite(FALSE, 0, 1)) THEN Some(n.re) ELSE None

unwrap_or(opt, default) == IF opt = None THEN default ELSE opt[1]

to_complex(n) ==
    CASE n.t = "Integer" -> Complex64(F64FromRatio(n.v, 1), Finite(FALSE, 0, 1))
      [] n.t = "Rational" -> Complex64(F64FromRatio(n.n, n.d), Finite(FALSE, 0, 1))
      [] n.t = "Float" -> Complex64(n.v, Finite(FALSE, 0, 1))
      [] n.t = "Complex" -> Inner(n)

\* promote with the Complex arms tried before the Float arms.
promote_complex_first(lhs, rhs) ==
    IF lhs.t = "Integer" /\ rhs.t = "Integer" THEN <<lhs, rhs>>
    ELSE IF lhs.t = "Integer" /\ rhs.t = "Rational" THEN <<from_integer(lhs.v), rhs>>
    ELSE IF lhs.t = "Rational" /\ rhs.t = "Integer" THEN <<lhs, from_integer(rhs.v)>>
    ELSE IF lhs.t = "Rational" /\ rhs.t = "Rational" THEN <<lhs, rhs>>
    ELSE IF lhs.t = "Complex" THEN <<lhs, Complex(to_complex(rhs))>>
    ELSE IF rhs.t = "Complex" THEN <<Complex(to_complex(lhs)), rhs>>
    ELSE IF lhs.t = "Float" THEN <<lhs, Float(unwrap_or(to_f64(rhs), NaN))>>
    ELSE <<Float(unwrap_or(to_f64(lhs), NaN)), rhs>>

\* promote that leaves an Integer paired with a Rational as it is.
promote_keep_integer(lhs, rhs) ==
    IF lhs.t \in {"Integer", "Rational"} /\ rhs.t \in {"Integer", "Rational"}
    THEN <<lhs, rhs>>
    ELSE IF lhs.t = "Float" THEN <<lhs, Float(unwrap_or(to_f64(rhs), NaN))>>
    ELSE IF rhs.t = "Float" THEN <<Float(unwrap_or(to_f64(lhs), NaN)), rhs>>
    ELSE IF lhs.t = "Complex" THEN <<lhs, Complex(to_complex(rhs))>>
    ELSE <<Complex(to_complex(lhs)), rhs>>

\* match (lhs, rhs): the arms in the order of the source, first match wins.
promote(lhs, rhs) ==
    IF lhs.t = "Integer" /\ rhs.t = "Integer" THEN <<lhs, rhs>>
    ELSE IF lhs.t = "Integer" /\ rhs.t = "Rational" THEN <<from_integer(lhs.v), rhs>>
    ELSE IF lhs.t = "Rational" /\ rhs.t = "Integer" THEN <<lhs, from_integer(rhs.v)>>
    ELSE IF lhs.t = "Rational" /\ rhs.t = "Rational" THEN <<lhs, rhs>>
    ELSE IF lhs.t = "Float" THEN <<lhs, Float(unwrap_or(to_f64(rhs), NaN))>>
    ELSE IF rhs.t = "Float" THEN <<Float(unwrap_or(to_f64(lhs), NaN)), rhs>>
    ELSE IF lhs.t = "Complex" THEN <<lhs, Complex(to_complex(rhs))>>
    ELSE <<Complex(to_complex(lhs)), rhs>>

\* The match of partial_cmp on the promoted pair.
partial_cmp_match(p) ==
    LET l == p[1]
        r == p[2]
    IN  IF l.t = "Integer" /\ r.t = "Integer" THEN Some(IntegerCmp(l.v, r.v))
        ELSE IF l.t = "Rational" /\ r.t = "Rational" THEN Some(RatioCmp(l, r))
        ELSE IF l.t = "Float" /\ r.t = "Float" THEN F64PartialCmp(l.v, r.v)
        ELSE None

\* impl PartialOrd for Number
partial_cmp(self, other) == partial_cmp_match(promote(self, other))

\* The match of impl_binary_op! on the promoted pair.
impl_binary_op_match(method, p) ==
    LET l == p[1]
        r == p[2]
    IN  IF l.t = "Integer" /\ r.t = "Integer"
        THEN Integer(CASE method = "add" -> l.v + r.v
                       [] method = "sub" -> l.v - r.v
                       [] method = "mul" -> l.v * r.v)
        ELSE IF l.t = "Rational" /\ r.t = "Rational"
        THEN (CASE method = "add" -> RatioAdd(l, r)
                [] method = "sub" -> RatioSub(l, r)
                [] method = "mul" -> RatioMul(l, r))
        ELSE IF l.t = "Float" /\ r.t = "Float"
        THEN Float(CASE method = "add" -> F64Add(l.v, r.v)
                     [] method = "sub" -> F64Sub(l.v, r.v)
                     [] method = "mul" -> F64Mul(l.v, r.v))
        ELSE IF l.t = "Complex" /\ r.t = "Complex"
        THEN Complex(CASE method = "add" -> Complex64Add(Inner(l), Inner(r))
                       [] method = "sub" -> Complex64Sub(Inner(l), Inner(r))
                       [] method = "mul" -> Complex64Mul(Inner(l), Inner(r)))
        ELSE Panic("unreachable: Promote should have handled all type combinations")

\* impl_binary_op!($trait, $method), method one of add, sub, mul.
impl_binary_op(method, self, rhs) ==
    impl_binary_op_match(method, promote(self, rhs))

NumberAdd(l, r) == impl_binary_op("add", l, r)

NumberSub(l, r) == impl_binary_op("sub", l, r)

NumberMul(l, r) == impl_binary_op("mul", l, r)

\* The division by zero of two exact operands: l.to_f64().unwrap_or(NAN) / 0.0
DivByZero(l) == Float(F64Div(unwrap_or(to_f64(l), NaN), Finite(FALSE, 0, 1)))

\* The inner match of Div, on the promoted pair.
div_match(p) ==
    LET l == p[1]
        r == p[2]
    IN  IF l.t = "Rational" /\ r.t = "Rational"
        THEN (IF r.n = 0 THEN DivByZero(l) ELSE RatioDiv(l, r))
        ELSE IF l.t = "Float" /\ r.t = "Float"
        THEN Float(F64Div(l.v, r.v))
        ELSE IF l.t = "Complex" /\ r.t = "Complex"
        THEN Complex(Complex64Div(Inner(l), Inner(r)))
        ELSE Panic("unreachable")

\* The inner match of Div without its zero check.
div_match_unguarded(p) ==
    LET l == p[1]
        r == p[2]
    IN  IF l.t = "Rational" /\ r.t = "Rational"
        THEN RatioDiv(l, r)
        ELSE IF l.t = "Float" /\ r.t = "Float"
        THEN Float(F64Div(l.v, r.v))
        ELSE IF l.t = "Complex" /\ r.t = "Complex"
        THEN Complex(Complex64Div(Inner(l), Inner(r)))
        ELSE Panic("unreachable")

\* Integer / Integer reduced to an Integer when the divisor divides.
NumberDivIntegral(self, rhs) ==
    IF self.t = "Integer" /\ rhs.t = "Integer" /\ rhs.v # 0 /\ self.v % Abs(rhs.v) = 0
    THEN Integer((self.v \div Abs(rhs.v)) * (IF rhs.v < 0 THEN 0 - 1 ELSE 1))
    ELSE IF self.t = "Integer" /\ rhs.t = "Integer"
    THEN (IF rhs.v = 0 THEN DivByZero(self) ELSE RatioNew(self.v, rhs.v))
    ELSE div_match(promote(self, rhs))

\* Division whose zero-divisor branches are missing: the exact division runs.
NumberDivUnguarded(self, rhs) ==
    IF self.t = "Integer" /\ rhs.t = "Integer"
    THEN RatioNew(self.v, rhs.v)
    ELSE div_match_unguarded(promote(self, rhs))

\* impl Div for Number
NumberDiv(self, rhs) ==
    IF self.t = "Integer" /\ rhs.t = "Integer"
    THEN (IF rhs.v = 0 THEN DivByZero(self) ELSE RatioNew(self.v, rhs.v))
    ELSE div_match(promote(self, rhs))

\* impl Neg for Number
NumberNeg(n) ==
    CASE n.t = "Integer" -> Integer(0 - n.v)
      [] n.t = "Rational" -> Rational(0 - n.n, n.d)
      [] n.t = "Float" -> Float(F64Neg(n.v))
      [] n.t = "Complex" -> Complex(Complex64Neg(Inner(n)))

\* The match of Rem on the promoted pair.
rem_match(p) ==
    LET l == p[1]
        r == p[2]
    IN  IF l.t = "Integer" /\ r.t = "Integer" THEN IntegerRem(l.v, r.v)
        ELSE IF l.t = "Rational" /\ r.t = "Rational" THEN RatioRem(l, r)
        ELSE IF l.t = "Float" /\ r.t = "Float" THEN Float(F64Rem(l.v, r.v))
        ELSE IF l.t = "Complex" /\ r.t = "Complex" THEN Float(NaN)
        ELSE Panic("unreachable")

\* impl Rem for Number
NumberRem(self, rhs) == rem_match(promote(self, rhs))

\* pow whose negative-exponent branch forgets the reciprocal.
pow_no_reciprocal(base, exp) ==
    IF base.t = "Integer" /\ exp.t = "Integer"
    THEN Integer(IntegerPow(base.v, Abs(exp.v)))
    ELSE Complex(Complex64(Libm("powc.re", base, exp), Libm("powc.im", base, exp)))

pow(base, exp) ==
    IF base.t = "Integer" /\ exp.t = "Integer"
    THEN LET b == base.v
             e == exp.v
         IN  IF e >= 0 /\ to_u32(e) # None
             THEN Integer(IntegerPow(b, to_u32(e)[1]))
             ELSE IF e < 0 /\ to_u32(0 - e) # None
             THEN LET den == IntegerPow(b, to_u32(0 - e)[1])
                  IN  IF den = 0
                      THEN Float(Infinity(FALSE))
                      ELSE RatioNew(1, den)
             ELSE Float(Libm("powf", base, exp))
    ELSE Complex(Complex64(Libm("powc.re", base, exp), Libm("powc.im", base, exp)))

RECURSIVE FactorialLoop(_, _, _)
\* while k <= i { acc = acc * k; k = k + 1 }
FactorialLoop(acc, k, i) ==
    IF k <= i THEN FactorialLoop(acc * k, k + 1, i) ELSE acc

\* factorial that accepts every Number with a whole value.
factorial_whole_values(n) ==
    IF n.t = "Integer" \/ (n.t = "Rational" /\ n.d = 1)
    THEN LET i == IF n.t = "Integer" THEN n.v ELSE n.n
         IN  IF i < 0
             THEN Err(DomainError("Factorial of negative integer"))
             ELSE Ok(Integer(FactorialLoop(1, 1, i)))
    ELSE Err(DomainError("Factorial only implemented for Integers currently"))

factorial(n) ==
    IF n.t = "Integer"
    THEN IF n.v < 0
         THEN Err(DomainError("Factorial of negative integer"))
         ELSE Ok(Integer(FactorialLoop(1, 1, n.v)))
    ELSE Err(DomainError("Factorial only implemented for Integers currently"))

ApplyBinaryOp(op, lhs, rhs) ==
    CASE op = "Add" -> NumberAdd(lhs, rhs)
      [] op = "Sub" -> NumberSub(lhs, rhs)
      [] op = "Mul" -> NumberMul(lhs, rhs)
      [] op = "Div" -> NumberDiv(lhs, rhs)
      [] op = "Mod" -> NumberRem(lhs, rhs)
      [] op = "Pow" -> pow(lhs, rhs)

(***************************************************************************)
(* Function registry (engine/functions).  get_registry collects the        *)
(* FunctionDef entries submitted by the modules that functions/mod.rs      *)
(* declares: bitwise, complex_ops, core_funcs, financial, hyperbolic,      *)
(* statistics and trigonometry.  logic.rs (if, not, and, or, ...) is not   *)
(* declared there, so none of its names is registered.                     *)
(***************************************************************************)
Registry ==
    { "band", "bor", "bxor", "bnot", "lsh", "rsh", "rol", "ror",
      "conj", "re", "im", "lm", "abs",
      "log", "ln", "sqrt", "ABS", "fact", "FACT", "round", "ROUND",
      "floor", "FLOOR", "ceil", "CEILING", "trunc", "TRUNC",
      "fv", "pv", "pmt", "nper", "rate", "npv", "irr",
      "sinh", "cosh", "tanh",
      "mean", "median", "var", "std",
      "sin", "cos", "tan", "asin", "acos", "atan", "cosin" }

\* f64::abs
F64Abs(x) == IF x.c = "nan" THEN NaN ELSE [x EXCEPT !.neg = FALSE]

\* abs of complex_ops.rs and of core_funcs.rs: both are submitted under the
\* name "abs" and both do the same.
abs(args) ==
    IF Len(args) # 1
    THEN Err(ArgumentMismatch("abs", 1))
    ELSE CASE args[1].t = "Integer" -> Ok(Integer(Abs(args[1].v)))
           [] args[1].t = "Rational" -> Ok(Rational(Abs(args[1].n), args[1].d))
           [] args[1].t = "Float" -> Ok(Float(F64Abs(args[1].v)))
           [] args[1].t = "Complex" ->
                 Ok(Float(Libm("hypot", args[1].re, args[1].im)))

conj(args) ==
    IF Len(args) # 1
    THEN Err(ArgumentMismatch("conj", 1))
    ELSE IF args[1].t = "Complex"
    THEN Ok(Complex(Complex64(args[1].re, F64Neg(args[1].im))))
    ELSE Ok(args[1])

re(args) ==
    IF Len(args) # 1
    THEN Err(ArgumentMismatch("re", 1))
    ELSE IF args[1].t = "Complex" THEN Ok(Float(args[1].re)) ELSE Ok(args[1])

im(args) ==
    IF Len(args) # 1
    THEN Err(ArgumentMismatch("im", 1))
    ELSE CASE args[1].t = "Complex" -> Ok(Float(args[1].im))
           [] args[1].t \in {"Integer", "Rational"} -> Ok(Integer(0))
           [] args[1].t = "Float" -> Ok(Float(Finite(FALSE, 0, 1)))

\* functions::apply.  The primitives that no program of this model calls
\* (they compute in f64 through libm, or on machine words) have no value
\* here.
apply(name, args) ==
    IF name \in Registry
    THEN CASE name \in {"abs", "ABS"} -> abs(args)
           [] name = "conj" -> conj(args)
           [] name = "re" -> re(args)
           [] name \in {"im", "lm"} -> im(args)
    ELSE Err(UnknownFunction(name))

(***************************************************************************)
(* History of one evaluation.  The evaluation state m is a context with    *)
(* two history fields: log, the steps taken so far, and frames, one entry  *)
(* per scope naming the call that pushed it (cid 0 and no parameters for a *)
(* scope that was there when the evaluation began).  A call is identified  *)
(* by cid, the position of its "call" event in the log.                    *)
(***************************************************************************)
Emit(m, event) == [m EXCEPT !.log = Append(@, event)]

\* The binding of name in each scope, outermost first.
Slot(ss, name) ==
    [i \in 1..Len(ss) |-> IF name \in DOMAIN ss[i] THEN Some(ss[i][name]) ELSE None]

\* Index of the scope of the innermost active call that has name as a
\* parameter; 0 when no active call has.
Owner(m, name) ==
    LET S == {i \in 1..Len(m.frames) : name \in m.frames[i].params}
    IN  IF S = {} THEN 0 ELSE CHOOSE i \in S : \A j \in S : j <= i

TopFrame(m) == IF Len(m.frames) = 0 THEN 0 ELSE m.frames[Len(m.frames)].cid

Range(seq) == {seq[i] : i \in 1..Len(seq)}

Min(a, b) == IF a <= b THEN a ELSE b

Ret(m, res) == [m |-> m, res |-> res]

\* The evaluation ended without a result: a panic unwinds the thread and no
\* statement after the failing one runs.
Unwinding(res) ==
    IF res.ok THEN FALSE ELSE res.val.e = "Panicked"

(***************************************************************************)
(* Expr::eval                                                              *)
(***************************************************************************)
RECURSIVE LeftSpine(_, _)
\* while let Expr::BinaryOp(op, lhs, rhs) = current_expr { stack.push((op, rhs)); ... }
LeftSpine(current_expr, stack) ==
    IF current_expr.k = "BinaryOp"
    THEN LeftSpine(current_expr.lhs, Append(stack, <<current_expr.op, current_expr.rhs>>))
    ELSE [leaf |-> current_expr, stack |-> stack]

RECURSIVE Eval(_, _)
RECURSIVE EvalArgs(_, _, _, _, _)
RECURSIVE BindParams(_, _, _, _, _)
RECURSIVE Unwind(_, _, _)

\* arg_expr.eval(context) ended with r for argument n of call cid.
ArgDone(r, cid, n) ==
    IF Unwinding(r.res)
    THEN r
    ELSE Ret(Emit(r.m, [ev |-> "argdone", cid |-> cid, i |-> n, res |-> r.res]),
             r.res)

\* The value pushed in front of those of the arguments to its right.
ArgsNextRightToLeft(args_exprs, i, args, r, cid) ==
    IF ~r.res.ok
    THEN r
    ELSE EvalArgs(args_exprs, i + 1, <<r.res.val>> \o args, r.m, cid)

\* The argument loop run over args_exprs.iter().rev().
EvalArgsRightToLeft(args_exprs, i, args, m, cid) ==
    IF i > Len(args_exprs)
    THEN Ret(m, Ok(args))
    ELSE ArgsNextRightToLeft(
             args_exprs, i, args,
             ArgDone(Eval(args_exprs[Len(args_exprs) + 1 - i],
                          Emit(m, [ev |-> "arg", cid |-> cid,
                                   i |-> Len(args_exprs) + 1 - i,
                                   depth |-> Len(m.scopes)])),
                     cid, Len(args_exprs) + 1 - i), cid)

\* args.push(..?): the error of argument i returns, its value is pushed and
\* the loop goes on.
ArgsNext(args_exprs, i, args, r, cid) ==
    IF ~r.res.ok
    THEN r
    ELSE EvalArgs(args_exprs, i + 1, Append(args, r.res.val), r.m, cid)

\* for arg_expr in args_exprs { args.push(arg_expr.eval(context)?); }
\* i is the next argument to evaluate, args the values pushed so far.
EvalArgs(args_exprs, i, args, m, cid) ==
    IF i > Len(args_exprs)
    THEN Ret(m, Ok(args))
    ELSE ArgsNext(args_exprs, i, args,
                  ArgDone(Eval(args_exprs[i],
                               Emit(m, [ev |-> "arg", cid |-> cid, i |-> i,
                                        depth |-> Len(m.scopes)])),
                          cid, i), cid)

\* The registry consulted first: a registered name never reaches the table.
lookup_function_after_registry(m, name) ==
    IF name \in Registry
    THEN None
    ELSE IF name \in DOMAIN m.functions THEN Some(m.functions[name]) ELSE None

\* context.functions.get(name).cloned()
\* The function table consulted only outside function bodies.
lookup_function_top_level(m, name) ==
    IF TopFrame(m) /= 0 THEN None
    ELSE IF name \in DOMAIN m.functions THEN Some(m.functions[name]) ELSE None

lookup_function(m, name) ==
    IF name \in DOMAIN m.functions THEN Some(m.functions[name]) ELSE None

\* An arity check that rejects too few arguments only.
arity_mismatch_too_few(args, user_func) == Len(args) < Len(user_func.params)

\* args.len() != user_func.params.len()
arity_mismatch(args, user_func) == Len(args) # Len(user_func.params)

\* for (param, value) in params.iter().zip(args.iter()) { define_var(param, value) }
BindParams(m, params, args, i, cid) ==
    IF i > Min(Len(params), Len(args))
    THEN m
    ELSE LET m1 == define_var(m, params[i], args[i])
         IN  BindParams(Emit(m1, [ev |-> "bind", cid |-> cid, param |-> params[i],
                                  val |-> args[i], depth |-> Len(m1.scopes)]),
                        params, args, i + 1, cid)

\* The body's error propagated with `?`, before pop_scope is reached.
finish_call_early_return(m, result) ==
    IF result.ok THEN Ret(pop_scope(m), result) ELSE Ret(m, result)

\* let result = user_func.body.eval(context); context.pop_scope(); result
\* A panic inside the body unwinds past pop_scope: the pushed scope stays.
finish_call(m, result) ==
    IF Unwinding(result) THEN Ret(m, result) ELSE Ret(pop_scope(m), result)

\* entry(name).or_insert(func): an existing entry is kept.
functions_insert_keep(m, name, func) ==
    IF name \in DOMAIN m.functions THEN m
    ELSE [m EXCEPT !.functions = MapInsert(@, name, func)]

\* The table replaced by one that holds the new entry alone.
functions_insert_alone(m, name, func) ==
    [m EXCEPT !.functions = MapInsert(EmptyMap, name, func)]

\* context.functions.insert(name.clone(), func)
functions_insert(m, name, func) ==
    [m EXCEPT !.functions = MapInsert(@, name, func)]

\* The call returns what finish_call left; f is finish_call on the body's
\* evaluation b.  A body that panicked never gets here.
PopFrame(f, b, cid) ==
    IF Unwinding(b.res)
    THEN f
    ELSE LET m5 == [f.m EXCEPT !.frames =
                        IF Len(f.m.scopes) < Len(b.m.scopes)
                        THEN SubSeq(@, 1, Len(@) - 1) ELSE @]
         IN  Ret(Emit(m5, [ev |-> "pop", cid |-> cid, scopes |-> m5.scopes,
                           depth |-> Len(m5.scopes)]),
                 f.res)

\* user_func.body.eval(context) ended with b.
BodyDone(b, cid) == PopFrame(finish_call(b.m, b.res), b, cid)

\* context.push_scope() and the parameter binding loop: the context in
\* which user_func.body.eval(context) is called.
EnterBody(user_func, args, m, cid) ==
    LET m1 == push_scope(m)
        m2 == Emit([m1 EXCEPT !.frames =
                        Append(@, [cid |-> cid, params |-> Range(user_func.params)])],
                   [ev |-> "push", cid |-> cid, scopes |-> m.scopes,
                    params |-> user_func.params, depth |-> Len(m1.scopes)])
        m3 == BindParams(m2, user_func.params, args, 1, cid)
    IN  Emit(m3, [ev |-> "body", cid |-> cid, body |-> user_func.body,
                  depth |-> Len(m3.scopes)])

\* The user-function branch of the FunctionCall arm, entered with the
\* arguments evaluated and the table entry found.
CallUser(name, user_func, args, m, cid) ==
    IF arity_mismatch(args, user_func)
    THEN Ret(m, Err(ArgumentMismatch(name, Len(user_func.params))))
    ELSE BodyDone(Eval(user_func.body, EnterBody(user_func, args, m, cid)), cid)

\* The call cid ended with r: its result is handed to the caller.
CallDone(r, cid) ==
    IF Unwinding(r.res)
    THEN r
    ELSE Ret(Emit(r.m, [ev |-> "return", cid |-> cid, res |-> r.res,
                        depth |-> Len(r.m.scopes)]),
             r.res)

\* functions::apply(name, args), reached when the table has no entry.
ApplyRegistry(name, args, m, cid) ==
    Ret(Emit(m, [ev |-> "apply", cid |-> cid, name |-> name, args |-> args]),
        apply(name, args))

\* The arguments a.res.val are evaluated and the function table is looked
\* up for name.
Looked(name, a, cid) ==
    Emit(a.m, [ev |-> "resolve", cid |-> cid, name |-> name,
               entry |-> IF name \in DOMAIN a.m.functions
                         THEN Some(a.m.functions[name]) ELSE None,
               registered |-> name \in Registry,
               given |-> Len(a.res.val), depth |-> Len(a.m.scopes)])

\* The FunctionCall arm after its argument loop ended with a.
Resolve(name, a, cid) ==
    IF ~a.res.ok
    THEN CallDone(a, cid)
    ELSE LET args == a.res.val
             user == lookup_function(a.m, name)
             m1 == Looked(name, a, cid)
         IN  CallDone(IF user # None
                      THEN CallUser(name, user[1], args, m1, cid)
                      ELSE ApplyRegistry(name, args, m1, cid),
                      cid)

\* The FunctionCall arm.
EvalCall(name, args_exprs, m) ==
    Resolve(name,
            EvalArgs(args_exprs, 1, <<>>,
                     Emit(m, [ev |-> "call", cid |-> Len(m.log) + 1, name |-> name,
                              nargs |-> Len(args_exprs), depth |-> Len(m.scopes)]), Len(m.log) + 1), Len(m.log) + 1)

\* The Assignment arm after expr.eval(context) ended with r:
\* let val = ..?; context.set_var(name.clone(), val.clone()); val
Assigned(name, r) ==
    IF ~r.res.ok
    THEN r
    ELSE LET m1 == set_var(r.m, name, r.res.val)
         IN  Ret(Emit(m1, [ev |-> "set", name |-> name, val |-> r.res.val,
                           pre |-> Slot(r.m.scopes, name),
                           post |-> Slot(m1.scopes, name),
                           owner |-> Owner(r.m, name),
                           frame |-> TopFrame(r.m),
                           depth |-> Len(r.m.scopes)]),
                 Ok(r.res.val))

\* The UnaryOp arm after expr.eval(context) ended with r.
UnaryDone(op, r) ==
    IF ~r.res.ok
    THEN r
    ELSE IF op = "Neg"
    THEN Ret(r.m, Ok(NumberNeg(r.res.val)))
    ELSE Ret(r.m, factorial(r.res.val))

\* The match on the leftmost non-binary node.
EvalLeaf(e, m) ==
    CASE e.k = "Literal" -> Ret(m, Ok(e.n))
      [] e.k = "Variable" ->
            LET got == get_var(m, e.name)
                m1 == Emit(m, [ev |-> "get", name |-> e.name, res |-> got,
                               pre |-> Slot(m.scopes, e.name),
                               owner |-> Owner(m, e.name), depth |-> Len(m.scopes)])
            IN  IF got = None
                THEN Ret(m1, Err(UndefinedVariable(e.name)))
                ELSE Ret(m1, Ok(got[1]))
      [] e.k = "Assignment" -> Assigned(e.name, Eval(e.expr, m))
      [] e.k = "FunctionDef" ->
            LET func == UserFunction(e.params, e.body)
                m1 == functions_insert(m, e.name, func)
            IN  Ret(Emit(m1, [ev |-> "def", name |-> e.name, func |-> func,
                              depth |-> Len(m.scopes)]),
                    Ok(Integer(0)))
      [] e.k = "UnaryOp" -> UnaryDone(e.op, Eval(e.expr, m))
      [] e.k = "FunctionCall" -> EvalCall(e.name, e.args, m)

\* result = Arc::new(res_num), and the loop goes on with the rest of the
\* stack; a panic of the operator ends the evaluation.
UnwindNext(stack, res_num, m) ==
    IF res_num.t = "Panic"
    THEN Ret(m, Err(Panicked(res_num.msg)))
    ELSE Unwind(stack, res_num, m)

\* The unwind loop taking the pairs in the order they were pushed
\* (outermost operator first) instead of popping them.
UnwindFromBottom(stack, result, m) ==
    IF Len(stack) = 0
    THEN Ret(m, Ok(result))
    ELSE LET top == stack[1]
             r == Eval(top[2], m)
         IN  IF ~r.res.ok
             THEN r
             ELSE UnwindNext(Tail(stack),
                             ApplyBinaryOp(top[1], result, r.res.val), r.m)

\* The unwind loop without the `?` on the right operand: the first error is
\* kept, but the remaining right operands are still evaluated.
UnwindKeepGoing(stack, result, m) ==
    IF Len(stack) = 0
    THEN Ret(m, Ok(result))
    ELSE LET top == stack[Len(stack)]
             r == Eval(top[2], m)
         IN  IF ~r.res.ok
             THEN Ret(Unwind(SubSeq(stack, 1, Len(stack) - 1), result, r.m).m, r.res)
             ELSE UnwindNext(SubSeq(stack, 1, Len(stack) - 1),
                             ApplyBinaryOp(top[1], result, r.res.val), r.m)

\* while let Some((op, rhs_expr)) = stack.pop() { ... }
Unwind(stack, result, m) ==
    IF Len(stack) = 0
    THEN Ret(m, Ok(result))
    ELSE LET top == stack[Len(stack)]
             r == Eval(top[2], m)
         IN  IF ~r.res.ok
             THEN r
             ELSE UnwindNext(SubSeq(stack, 1, Len(stack) - 1),
                             ApplyBinaryOp(top[1], result, r.res.val), r.m)

Eval(e, m) ==
    LET spine == LeftSpine(e, <<>>)
        r == EvalLeaf(spine.leaf, m)
    IN  IF ~r.res.ok THEN r ELSE Unwind(spine.stack, r.res.val, r.m)

\* expr.eval(context) called by the host on the context c.
eval(e, c) ==
    Eval(e,
         [scopes |-> c.scopes, functions |-> c.functions, log |-> <<>>,
          frames |-> [i \in 1..Len(c.scopes) |-> [cid |-> 0, params |-> {}]]])

(***************************************************************************)
(* Programs.  Each expression is written with the source text that parses  *)
(* to it.  f, g and abs are the function names that get defined ("abs" is  *)
(* also a registry primitive); u and if are never defined nor registered.  *)
(***************************************************************************)
Int0 == Literal(Integer(0))
Int1 == Literal(Integer(1))
Int2 == Literal(Integer(2))

DefFAssign == FunctionDef("f", <<>>, Assignment("x", Int2))            \* f() = x = 2
DefFParam == FunctionDef("f", <<"x">>, Assignment("x", Int2))          \* f(x) = x = 2
DefGCallF == FunctionDef("g", <<>>, FunctionCall("f", <<>>))           \* g() = f()
DefGParam ==                                                           \* g(p) = f(p)
    FunctionDef("g", <<"p">>, FunctionCall("f", <<Variable("p")>>))
DefAbs == FunctionDef("abs", <<"p">>, FunctionCall("g", <<>>))         \* abs(p) = g()
DefFInner == FunctionDef("f", <<>>, DefAbs)                            \* f() = abs(p) = g()

Definitions == {DefFAssign, DefFParam, DefFInner, DefGCallF, DefGParam, DefAbs}

Statements ==
    { Assignment("x", Int1),                                           \* x = 1
      Assignment("p", Int1),                                           \* p = 1
      Variable("x"),                                                   \* x
      Variable("p") }                                                  \* p

IfThenElse(c) ==                                                       \* if(c, x = 1, p = 1)
    FunctionCall("if", <<c, Assignment("x", Int1), Assignment("p", Int1)>>)

AbsMinus1 == FunctionCall("abs", <<UnaryOp("Neg", Int1)>>)             \* abs(-1)

Calls ==
    { FunctionCall("f", <<>>),                                         \* f()
      FunctionCall("f", <<Int1>>),                                     \* f(1)
      FunctionCall("g", <<>>),                                         \* g()
      FunctionCall("g", <<Int1>>),                                     \* g(1)
      AbsMinus1,                                                       \* abs(-1)
      IfThenElse(Int1),                                                \* if(1, x = 1, p = 1)
      IfThenElse(Int0),                                                \* if(0, x = 1, p = 1)
      FunctionCall("u", <<Assignment("x", Int1), Assignment("x", Int2)>>), \* u(x = 1, x = 2)
      FunctionCall("f", <<Assignment("x", Int1)>>),                    \* f(x = 1)
      FunctionCall("f", <<FunctionCall("u", <<>>)>>),                  \* f(u())
      FunctionCall("u", <<DefFParam, FunctionCall("f", <<Int1>>)>>) }  \* u(f(x) = x = 2, f(1))

Chains ==
    { BinaryOp("Add", BinaryOp("Add", FunctionCall("f", <<>>), Variable("x")),
               FunctionCall("u", <<>>)),                                \* f() + x + u()
      UnaryOp("Neg", FunctionCall("f", <<Int1>>)) }                    \* -f(1)

Programs == Definitions \cup Statements \cup Calls \cup Chains

\* Binary chains, as the parser builds them: a op b op c is
\* BinaryOp(op, BinaryOp(op, a, b), c).
Chain2(op1, a, b) == BinaryOp(op1, a, b)
Chain3(op1, op2, a, b, c) == BinaryOp(op2, BinaryOp(op1, a, b), c)

CallU == FunctionCall("u", <<>>)                                       \* u()

ChainPrograms ==
    { DefFAssign,                                                      \* f() = x = 2
      Assignment("p", Int1),                                           \* p = 1
      Chain2("Sub", Int2, Int1),                                       \* 2 - 1
      Chain3("Sub", "Sub", Int2, Int1, Int1),                          \* 2 - 1 - 1
      Chain3("Sub", "Mul", Int2, Int1, Int2),                          \* (2 - 1) * 2
      Chain3("Sub", "Sub", Assignment("x", Int2), Assignment("x", Int1),
             Variable("x")),                                           \* (x = 2) - (x = 1) - x
      Chain3("Sub", "Add", Variable("x"), Assignment("p", Int2),
             Assignment("x", Int1)),                                   \* x - (p = 2) + (x = 1)
      Chain3("Add", "Add", Assignment("x", Int1), CallU,
             Assignment("x", Int2)),                                   \* (x = 1) + u() + (x = 2)
      Chain3("Add", "Add", Variable("p"), FunctionCall("f", <<>>), DefGCallF),
                                                                       \* p + f() + (g() = f())
      Chain2("Add", CallU, DefGCallF),                                 \* u() + (g() = f())
      FunctionCall("f", <<Assignment("x", Int1), CallU, DefGCallF,
                          Assignment("p", Int2)>>),                    \* f(x = 1, u(), g() = f(), p = 2)
      Assignment("x", Chain3("Sub", "Sub", Int2, FunctionCall("g", <<>>),
                             Assignment("p", Int0))) }                 \* x = 2 - g() - (p = 0)

\* What a host evaluates between its own scope operations.
HostPrograms ==
    { DefFAssign, DefGParam, FunctionCall("f", <<>>), FunctionCall("g", <<Int1>>) }

HostNames == {"x", "p"}
HostValues == {Integer(1)}

(***************************************************************************)
(* State machine.  last records the latest operation: which one, the       *)
(* expression evaluated, the context before it, the result returned and    *)
(* the history of the evaluation.                                          *)
(***************************************************************************)
NoExpr == [k |-> "None"]

Context == [scopes |-> scopes, functions |-> functions]

Record(op, e, res, log) ==
    [op |-> op, expr |-> e, pre |-> Context, res |-> res, log |-> log]

\* No AppSessionManager has been constructed.
NoManager ==
    /\ state = None
    /\ threads = <<>>
    /\ disk = None

Init ==
    /\ scopes = ContextNew.scopes
    /\ functions = ContextNew.functions
    /\ NoManager
    /\ last = [op |-> "new", expr |-> NoExpr, pre |-> ContextNew,
               res |-> Ok(Integer(0)), log |-> <<>>]

\* expr.eval(&mut context); an evaluation that panics returns nothing, so it
\* is not a step of the machine.
Evaluate(e) ==
    LET r == eval(e, Context)
    IN  /\ ~Unwinding(r.res)
        /\ scopes' = r.m.scopes
        /\ functions' = r.m.functions
        /\ UNCHANGED manager
        /\ last' = Record("eval", e, r.res, r.m.log)

PushScope ==
    /\ Len(scopes) < MaxScopes
    /\ scopes' = push_scope(Context).scopes
    /\ functions' = functions
    /\ UNCHANGED manager
    /\ last' = Record("push_scope", NoExpr, Ok(Integer(0)), <<>>)

PopScope ==
    /\ scopes' = pop_scope(Context).scopes
    /\ functions' = functions
    /\ UNCHANGED manager
    /\ last' = Record("pop_scope", NoExpr, Ok(Integer(0)), <<>>)

SetVar(name, value) ==
    /\ scopes' = set_var(Context, name, value).scopes
    /\ functions' = functions
    /\ UNCHANGED manager
    /\ last' = Record("set_var", NoExpr, Ok(value), <<>>)

DefineVar(name, value) ==
    /\ scopes' = define_var(Context, name, value).scopes
    /\ functions' = functions
    /\ UNCHANGED manager
    /\ last' = Record("define_var", NoExpr, Ok(value), <<>>)

Next == \E e \in Programs : Evaluate(e)

Spec == Init /\ [][Next]_vars

NextChain == \E e \in ChainPrograms : Evaluate(e)

SpecChain == Init /\ [][NextChain]_vars

(***************************************************************************)
(* The numeric tower on its own: the operators of engine/types.rs applied  *)
(* to operands of every variant.  last records the operation, its operands *)
(* and what it returned (a Number, a Panic, a Result or an Option).        *)
(***************************************************************************)
\* Largest magnitude of the operands of the Integer-with-Integer cases.
MaxInt == 3

F64Zero == Finite(FALSE, 0, 1)
F64One == Finite(FALSE, 1, 1)

Integers == {Integer(i) : i \in (0 - 2)..2}

Rationals == {Rational(0, 1), Rational(1, 2), Rational(0 - 1, 2), Rational(2, 1)}

Floats ==
    { Float(F64Zero), Float(Finite(TRUE, 0, 1)),                       \* 0.0, -0.0
      Float(Finite(FALSE, 1, 2)), Float(Finite(TRUE, 2, 1)),           \* 0.5, -2.0
      Float(Infinity(FALSE)), Float(NaN) }

Complexes ==
    { Complex(Complex64(F64Zero, F64One)),                             \* i
      Complex(Complex64(F64One, F64Zero)),                             \* 1 + 0i
      Complex(Complex64(F64One, Finite(TRUE, 1, 1))),                  \* 1 - i
      Complex(Complex64(F64Zero, F64Zero)) }                           \* 0 + 0i

Numbers == Integers \cup Rationals \cup Floats \cup Complexes

IntegerRange == {Integer(i) : i \in (0 - MaxInt)..MaxInt}

OperandPairs == (Numbers \X Numbers) \cup (IntegerRange \X IntegerRange)

BinaryOps == {"Add", "Sub", "Mul", "Div", "Mod", "Pow"}

NumRecord(op, f, args, res) ==
    [op |-> op, f |-> f, args |-> args, res |-> res,
     expr |-> NoExpr, pre |-> ContextNew, log |-> <<>>]

\* An operation about to be applied to its operands.
Pending(f, args) == NumRecord("pending", f, args, None)

InitNum ==
    /\ scopes = ContextNew.scopes
    /\ functions = ContextNew.functions
    /\ NoManager
    /\ last \in {Pending(op, p) : op \in BinaryOps \cup {"partial_cmp"}, p \in OperandPairs}
                \cup {Pending(op, <<val>>) : op \in {"Neg", "Factorial"},
                                             val \in Numbers \cup IntegerRange}

\* lhs op rhs, as the unwind loop of eval applies it.
Operate ==
    /\ last.op = "pending"
    /\ last.f \in BinaryOps
    /\ last' = NumRecord("binary", last.f, last.args,
                         ApplyBinaryOp(last.f, last.args[1], last.args[2]))
    /\ UNCHANGED <<scopes, functions>>
    /\ UNCHANGED manager

\* -val
Negate ==
    /\ last.op = "pending"
    /\ last.f = "Neg"
    /\ last' = NumRecord("unary", last.f, last.args, NumberNeg(last.args[1]))
    /\ UNCHANGED <<scopes, functions>>
    /\ UNCHANGED manager

\* factorial(val)
Factorial ==
    /\ last.op = "pending"
    /\ last.f = "Factorial"
    /\ last' = NumRecord("unary", last.f, last.args, factorial(last.args[1]))
    /\ UNCHANGED <<scopes, functions>>
    /\ UNCHANGED manager

\* lhs.partial_cmp(&rhs)
Compare ==
    /\ last.op = "pending"
    /\ last.f = "partial_cmp"
    /\ last' = NumRecord("compare", last.f, last.args,
                         partial_cmp(last.args[1], last.args[2]))
    /\ UNCHANGED <<scopes, functions>>
    /\ UNCHANGED manager

NextNum == Operate \/ Negate \/ Factorial \/ Compare

SpecNum == InitNum /\ [][NextNum]_vars

NextHost ==
    \/ PushScope
    \/ PopScope
    \/ \E name \in HostNames, value \in HostValues : SetVar(name, value)
    \/ \E name \in HostNames, value \in HostValues : DefineVar(name, value)
    \/ \E e \in HostPrograms : Evaluate(e)

SpecHost == Init /\ [][NextHost]_vars

(***************************************************************************)
(* Expr::eval step by step.  eval calls itself on the operand of an        *)
(* assignment or of a unary operator, on each argument, on a function body *)
(* and on each right operand.  calls holds one entry for each call of eval *)
(* that waits for such a call to return: its local stack of (op, rhs)      *)
(* pairs and the place it waits at.  control is the call of eval about to  *)
(* begin or the result a call has just returned.                           *)
(***************************************************************************)
Calling(e) == [c |-> "call", e |-> e]
Returning(res) == [c |-> "return", res |-> res]
Config(m, control, calls) == [m |-> m, control |-> control, calls |-> calls]
Waiting(stack, at) == [stack |-> stack, at |-> at]

\* The unwind loop of a call of eval, entered with r, the value of the match
\* or of the latest operator: an error returns (the `?` before), an empty
\* stack returns Ok(result), and otherwise the pair on top is popped and
\* rhs_expr.eval(context) is called.
Unwound(stack, r, calls) ==
    IF ~r.res.ok \/ Len(stack) = 0
    THEN Config(r.m, Returning(r.res), calls)
    ELSE Config(r.m, Calling(stack[Len(stack)][2]),
                Append(calls,
                       Waiting(SubSeq(stack, 1, Len(stack) - 1),
                               [k |-> "rhs", op |-> stack[Len(stack)][1],
                                result |-> r.res.val])))

\* The FunctionCall arm after its argument loop: the table entry found and
\* the arity right, user_func.body.eval(context) is called in the pushed
\* scope; otherwise the arm has its value.
Resolved(name, a, cid, stack, calls) ==
    LET user == lookup_function(a.m, name)
    IN  IF user = None
        THEN Unwound(stack,
                     CallDone(ApplyRegistry(name, a.res.val, Looked(name, a, cid), cid), cid),
                     calls)
        ELSE IF arity_mismatch(a.res.val, user[1])
        THEN Unwound(stack,
                     CallDone(Ret(Looked(name, a, cid),
                                  Err(ArgumentMismatch(name, Len(user[1].params)))),
                              cid),
                     calls)
        ELSE Config(EnterBody(user[1], a.res.val, Looked(name, a, cid), cid),
                    Calling(user[1].body),
                    Append(calls, Waiting(stack, [k |-> "body", cid |-> cid])))

\* The argument loop at argument i: arg_expr.eval(context) is called, or
\* the loop is over.
Args(name, args_exprs, i, args, m, cid, stack, calls) ==
    IF i > Len(args_exprs)
    THEN Resolved(name, Ret(m, Ok(args)), cid, stack, calls)
    ELSE Config(Emit(m, [ev |-> "arg", cid |-> cid, i |-> i,
                         depth |-> Len(m.scopes)]),
                Calling(args_exprs[i]),
                Append(calls,
                       Waiting(stack,
                               [k |-> "arg", name |-> name,
                                args_exprs |-> args_exprs, i |-> i,
                                args |-> args, cid |-> cid])))

\* The match on the leftmost non-binary node e, up to its first call of
\* eval.
Leaf(e, m, stack, calls) ==
    CASE e.k = "Assignment" ->
            Config(m, Calling(e.expr),
                   Append(calls, Waiting(stack, [k |-> "assign", name |-> e.name])))
      [] e.k = "UnaryOp" ->
            Config(m, Calling(e.expr),
                   Append(calls, Waiting(stack, [k |-> "unary", op |-> e.op])))
      [] e.k = "FunctionCall" ->
            Args(e.name, e.args, 1, <<>>,
                 Emit(m, [ev |-> "call", cid |-> Len(m.log) + 1, name |-> e.name,
                          nargs |-> Len(e.args), depth |-> Len(m.scopes)]),
                 Len(m.log) + 1, stack, calls)
      [] OTHER -> Unwound(stack, EvalLeaf(e, m), calls)

\* e.eval(context) begins: the walk down the left spine, then the match.
Invoke(e, m, calls) ==
    Leaf(LeftSpine(e, <<>>).leaf, m, LeftSpine(e, <<>>).stack, calls)

\* let rhs = rhs_expr.eval(context)?; the operator applied to result and
\* rhs; a panic of the operator ends the evaluation.
RhsDone(op, result, r) ==
    IF ~r.res.ok
    THEN r
    ELSE IF ApplyBinaryOp(op, result, r.res.val).t = "Panic"
    THEN Ret(r.m, Err(Panicked(ApplyBinaryOp(op, result, r.res.val).msg)))
    ELSE Ret(r.m, Ok(ApplyBinaryOp(op, result, r.res.val)))

\* args.push(arg_expr.eval(context)?) with a, what the argument's call
\* returned: the error leaves the arm, the value goes on to the next
\* argument.
ArgReturned(top, a, calls) ==
    IF ~a.res.ok
    THEN Unwound(top.stack, CallDone(a, top.at.cid), calls)
    ELSE Args(top.at.name, top.at.args_exprs, top.at.i + 1,
              Append(top.at.args, a.res.val), a.m, top.at.cid, top.stack, calls)

\* A call of eval returned r to the call top that waited for it.
Resumed(top, r, calls) ==
    CASE top.at.k = "assign" ->
            Unwound(top.stack, Assigned(top.at.name, r), calls)
      [] top.at.k = "unary" ->
            Unwound(top.stack, UnaryDone(top.at.op, r), calls)
      [] top.at.k = "arg" ->
            ArgReturned(top, ArgDone(r, top.at.cid, top.at.i), calls)
      [] top.at.k = "body" ->
            Unwound(top.stack, CallDone(BodyDone(r, top.at.cid), top.at.cid), calls)
      [] top.at.k = "rhs" ->
            Unwound(top.stack, RhsDone(top.at.op, top.at.result, r), calls)

\* One step of the evaluation: up to the next call of eval or return.
Step(cfg) ==
    IF cfg.control.c = "call"
    THEN Invoke(cfg.control.e, cfg.m, cfg.calls)
    ELSE Resumed(cfg.calls[Len(cfg.calls)], Ret(cfg.m, cfg.control.res),
                 SubSeq(cfg.calls, 1, Len(cfg.calls) - 1))

\* The call the host made has returned.
Final(cfg) == cfg.control.c = "return" /\ Len(cfg.calls) = 0

\* The function bodies under evaluation.
Nested(calls) == Cardinality({i \in DOMAIN calls : calls[i].at.k = "body"})

(***************************************************************************)
(* Recursive user functions, evaluated step by step.  While an evaluation  *)
(* is under way scopes and functions are the context it works on and last  *)
(* holds its log, its control and its calls; when it has returned last     *)
(* records it as the other machines do.  A recursion is followed for       *)
(* MaxCallDepth nested bodies.                                             *)
(***************************************************************************)
CallF(args) == FunctionCall("f", args)
VarX == Variable("x")
XMinus1 == BinaryOp("Sub", VarX, Int1)

RecursiveBodies ==
    { CallF(<<VarX>>),                                                 \* f(x)
      FunctionCall("if", <<VarX, CallF(<<XMinus1>>), Int0>>),          \* if(x, f(x - 1), 0)
      FunctionCall("if", <<Int0, CallF(<<XMinus1>>), Int1>>),          \* if(0, f(x - 1), 1)
      FunctionCall("if", <<VarX, Int1, Variable("y")>>),               \* if(x, 1, y)
      BinaryOp("Add", Int1, CallF(<<VarX>>)),                          \* 1 + f(x)
      BinaryOp("Add", CallF(<<VarX>>), Int1),                          \* f(x) + 1
      CallF(<<VarX, Int1>>),                                           \* f(x, 1)
      BinaryOp("Add", UnaryOp("Factorial", XMinus1), CallF(<<XMinus1>>)), \* (x - 1)! + f(x - 1)
      BinaryOp("Add", Variable("y"), CallF(<<VarX>>)),                 \* y + f(x)
      CallF(<<Variable("y")>>),                                        \* f(y)
      FunctionCall("g", <<VarX>>),                                     \* g(x)
      VarX }                                                           \* x

RecPrograms ==
    {FunctionDef("f", <<"x">>, body) : body \in RecursiveBodies}
        \cup { FunctionDef("g", <<"p">>, CallF(<<Variable("p")>>)),    \* g(p) = f(p)
               Assignment("y", Int1),                                  \* y = 1
               CallF(<<Int1>>),                                        \* f(1)
               CallF(<<Int0>>),                                        \* f(0)
               CallF(<<>>),                                            \* f()
               FunctionCall("g", <<Int1>>),                            \* g(1)
               BinaryOp("Add", Int1, CallF(<<Int1>>)) }                \* 1 + f(1)

\* The evaluation under way.
Machine ==
    Config([scopes |-> scopes, functions |-> functions, log |-> last.log,
            frames |-> last.frames],
           last.control, last.calls)

\* The host calls expr.eval(&mut context).
StartEval(e) ==
    /\ last.op \in {"new", "eval"}
    /\ last' = [op |-> "running", expr |-> e, pre |-> Context, log |-> <<>>,
                frames |-> [i \in 1..Len(scopes) |-> [cid |-> 0, params |-> {}]],
                control |-> Calling(e), calls |-> <<>>]
    /\ UNCHANGED <<scopes, functions>>
    /\ UNCHANGED manager

\* The evaluation moves to next; when the host's call has returned, last
\* records the evaluation.
Proceed(next) ==
    /\ Nested(next.calls) <= MaxCallDepth
    /\ scopes' = next.m.scopes
    /\ functions' = next.m.functions
    /\ last' = IF Final(next)
               THEN [op |-> IF Unwinding(next.control.res) THEN "panicked" ELSE "eval",
                     expr |-> last.expr, pre |-> last.pre,
                     res |-> next.control.res, log |-> next.m.log]
               ELSE [last EXCEPT !.log = next.m.log, !.frames = next.m.frames,
                                 !.control = next.control, !.calls = next.calls]
    /\ UNCHANGED manager

StepEval ==
    /\ last.op = "running"
    /\ Proceed(Step(Machine))

NextRec ==
    \/ \E e \in RecPrograms : StartEval(e)
    \/ StepEval

SpecRec == Init /\ [][NextRec]_vars

(***************************************************************************)
(* Lexer and parser: engine/tokens.rs and engine/parser.rs.                *)
(*                                                                         *)
(* The input of parse is modelled as a sequence of lexemes, the maximal    *)
(* pieces of text between whitespace that the Logos rules of Token match   *)
(* (or fail to match) one at a time.  The parser pulls one token at a time *)
(* from the lexer and keeps one token of lookahead in current.             *)
(***************************************************************************)
ParserError(msg) == [e |-> "ParserError", msg |-> msg]

\* A token without a payload: Plus, Minus, Multiply, Divide, Power, Factorial,
\* Percent, LParen, RParen, Comma, Equals, Eof, Error.
Token(kind) == [tok |-> kind]
TokenFloat(f) == [tok |-> "Float", v |-> f]
TokenInteger(i) == [tok |-> "Integer", v |-> i]
TokenIdentifier(s) == [tok |-> "Identifier", v |-> s]

\* The lexemes of the model that the Integer rules match, with the value
\* their callbacks produce (decimal, 0x base 16, 0b base 2).
IntegerLexemes ==
    ("0" :> 0) @@ ("1" :> 1) @@ ("2" :> 2) @@ ("3" :> 3)
        @@ ("0x10" :> 16) @@ ("0b11" :> 3)

\* The lexemes of the model that the Float rules match, with the f64 their
\* callback parses.
FloatLexemes ==
    ("0.5" :> Finite(FALSE, 1, 2)) @@ ("2." :> Finite(FALSE, 2, 1))
        @@ ("1e1" :> Finite(FALSE, 10, 1))

\* The lexemes of the model that the Identifier rule matches.
IdentifierLexemes == {"a", "b", "c", "d", "f", "g", "x"}

\* One step of the derived lexer on one lexeme: the token of the rule that
\* matches it, or Err when no rule does.
lex(lexeme) ==
    CASE lexeme = "+" -> Ok(Token("Plus"))
      [] lexeme = "-" -> Ok(Token("Minus"))
      [] lexeme = "*" -> Ok(Token("Multiply"))
      [] lexeme = "/" -> Ok(Token("Divide"))
      [] lexeme = "^" -> Ok(Token("Power"))
      [] lexeme = "!" -> Ok(Token("Factorial"))
      [] lexeme = "%" -> Ok(Token("Percent"))
      [] lexeme = "(" -> Ok(Token("LParen"))
      [] lexeme = ")" -> Ok(Token("RParen"))
      [] lexeme = "," -> Ok(Token("Comma"))
      [] lexeme = "=" -> Ok(Token("Equals"))
      [] lexeme \in DOMAIN FloatLexemes -> Ok(TokenFloat(FloatLexemes[lexeme]))
      [] lexeme \in DOMAIN IntegerLexemes ->
            Ok(TokenInteger(IntegerLexemes[lexeme]))
      [] lexeme \in IdentifierLexemes -> Ok(TokenIdentifier(lexeme))
      [] OTHER -> Err(<<>>)

(***************************************************************************)
(* The lexer on text.  A String is the sequence of its characters; the     *)
(* derived lexer cuts it into lexemes by the longest match of its rules.   *)
(***************************************************************************)
\* The text of a sequence of characters as one string.
RECURSIVE Str(_)
Str(chars) == IF chars = <<>> THEN "" ELSE chars[1] \o Str(Tail(chars))

HexDigits ==
    <<"0", "1", "2", "3", "4", "5", "6", "7", "8", "9", "A", "B", "C", "D", "E", "F">>
HexLower ==
    <<"0", "1", "2", "3", "4", "5", "6", "7", "8", "9", "a", "b", "c", "d", "e", "f">>
DigitChars == {HexDigits[i] : i \in 1..10}
HexChars == {HexDigits[i] : i \in 1..16} \cup {HexLower[i] : i \in 1..16}
BinChars == {"0", "1"}
LetterChars ==
    {"a", "b", "c", "d", "e", "f", "g", "h", "i", "j", "k", "l", "m", "n", "o", "p", "q", "r", "s", "t", "u", "v", "w", "x", "y", "z",
     "A", "B", "C", "D", "E", "F", "G", "H", "I", "J", "K", "L", "M", "N", "O", "P", "Q", "R", "S", "T", "U", "V", "W", "X", "Y", "Z"}
\* #[logos(skip r"[ \t\n\f]+")]
SkipChars == {" ", "\t", "\n", "\f"}

\* char::to_digit(16)
to_digit(c) == (CHOOSE k \in 1..16 : HexDigits[k] = c \/ HexLower[k] = c) - 1

\* BigInt::parse_bytes(run, radix) and str::parse::<BigInt> (radix 10) on a
\* run of digits of the radix.
RECURSIVE parse_bytes(_, _)
parse_bytes(run, radix) ==
    IF run = <<>> THEN 0
    ELSE radix * parse_bytes(SubSeq(run, 1, Len(run) - 1), radix)
            + to_digit(run[Len(run)])

\* The last position of the longest run of characters of set that begins at
\* position i; i - 1 when the character at i is not of the set.
RECURSIVE RunEnd(_, _, _)
RunEnd(chars, i, set) ==
    IF i <= Len(chars) /\ chars[i] \in set
    THEN RunEnd(chars, i + 1, set)
    ELSE i - 1

\* A 0x or 0b literal begins at i: 0, the mark, and a digit of the radix.
RadixAhead(chars, i, mark, set) ==
    /\ i + 2 <= Len(chars)
    /\ chars[i] = "0"
    /\ chars[i + 1] = mark
    /\ chars[i + 2] \in set

\* An exponent begins after position j: e or E, an optional sign, a digit.
ExponentAhead(chars, j) ==
    /\ j + 2 <= Len(chars)
    /\ chars[j + 1] \in {"e", "E"}
    /\ \/ chars[j + 2] \in DigitChars
       \/ /\ j + 3 <= Len(chars)
          /\ chars[j + 2] \in {"+", "-"}
          /\ chars[j + 3] \in DigitChars

\* The digit run that ends at j goes on as a Float: a dot or an exponent.
FloatAhead(chars, j) ==
    \/ j + 1 <= Len(chars) /\ chars[j + 1] = "."
    \/ ExponentAhead(chars, j)

\* The end of the lexeme that begins with the digit at i: a 0x or 0b
\* literal, or the digit run.  A Float lexeme is parsed by str::parse::<f64>,
\* which is not computed here: a text that holds one has no lexemes.
NumberEnd(chars, i) ==
    CASE RadixAhead(chars, i, "x", HexChars) -> RunEnd(chars, i + 2, HexChars)
      [] RadixAhead(chars, i, "b", BinChars) -> RunEnd(chars, i + 2, BinChars)
      [] /\ ~RadixAhead(chars, i, "x", HexChars)
         /\ ~RadixAhead(chars, i, "b", BinChars)
         /\ ~FloatAhead(chars, RunEnd(chars, i, DigitChars)) ->
            RunEnd(chars, i, DigitChars)

\* The end of the longest match at i: a number, an Identifier (a letter,
\* then letters, digits and _), or one character, an operator or a
\* character that no rule matches.
LexemeEnd(chars, i) ==
    IF chars[i] \in DigitChars THEN NumberEnd(chars, i)
    ELSE IF chars[i] \in LetterChars
    THEN RunEnd(chars, i + 1, LetterChars \cup DigitChars \cup {"_"})
    ELSE i

\* The lexemes of the text from position i on, whitespace skipped.
RECURSIVE Lexemes(_, _)
Lexemes(chars, i) ==
    IF i > Len(chars) THEN <<>>
    ELSE IF chars[i] \in SkipChars
    THEN Lexemes(chars, RunEnd(chars, i, SkipChars) + 1)
    ELSE <<SubSeq(chars, i, LexemeEnd(chars, i))>>
            \o Lexemes(chars, LexemeEnd(chars, i) + 1)

\* The token of one lexeme of a text, by the rule that matched it.
lex_text(run) ==
    CASE run[1] \in DigitChars ->
            IF Len(run) > 2 /\ run[2] = "x"
            THEN Ok(TokenInteger(parse_bytes(SubSeq(run, 3, Len(run)), 16)))
            ELSE IF Len(run) > 2 /\ run[2] = "b"
            THEN Ok(TokenInteger(parse_bytes(SubSeq(run, 3, Len(run)), 2)))
            ELSE Ok(TokenInteger(parse_bytes(run, 10)))
      [] run[1] \in LetterChars -> Ok(TokenIdentifier(Str(run)))
      [] OTHER -> lex(run[1])

\* Token::lexer(expression).spanned(): the lexer before its first item, on
\* an input given as lexemes and on a text.
Lexer(expression) == [source |-> expression, at |-> 1, text |-> FALSE]
TextLexer(chars) == [source |-> Lexemes(chars, 1), at |-> 1, text |-> TRUE]

\* Iterator::next of the lexer: the next item and the lexer after it; None
\* at the end of the input, again and again.
LexerNext(lexer) ==
    IF lexer.at <= Len(lexer.source)
    THEN [item |-> Some(IF lexer.text
                        THEN lex_text(lexer.source[lexer.at])
                        ELSE lex(lexer.source[lexer.at])),
          lexer |-> [lexer EXCEPT !.at = @ + 1]]
    ELSE [item |-> None, lexer |-> lexer]

fetch_next_token_skip_errors(n) ==
    [token |-> IF n.item = None THEN Token("Eof")
               ELSE IF n.item[1].ok THEN n.item[1].val
               ELSE Token("Eof"),
     lexer |-> n.lexer]

\* fetch_next_token, on the result n of lexer.next().
fetch_next_token(n) ==
    [token |-> IF n.item = None THEN Token("Eof")
               ELSE IF n.item[1].ok THEN n.item[1].val
               ELSE Token("Error"),
     lexer |-> n.lexer]

\* Parser::new.  taken counts the tokens the parser has moved past and log
\* records its calls and loop iterations; neither is a field of the code.
ParserNew(f) ==
    [lexer |-> f.lexer, current |-> f.token, taken |-> 0, log |-> <<>>]

current(p) == p.current

\* The parser after fetching f into current.
Fetched(p, f) ==
    [p EXCEPT !.lexer = f.lexer, !.current = f.token,
              !.taken = IF p.current = Token("Eof") THEN @ ELSE @ + 1]

advance(p) == Fetched(p, fetch_next_token(LexerNext(p.lexer)))

advance_with_token(p) == [token |-> p.current, p |-> advance(p)]

Parsed(p, res) == [p |-> p, res |-> res]

Fail(p, msg) == Parsed(p, Err(ParserError(msg)))

\* A finished parse_bp call, operator-loop iteration or argument-loop
\* iteration that began with from tokens taken.
Done(kind, from, r) ==
    Parsed([r.p EXCEPT !.log = Append(@, [ev |-> kind, from |-> from,
                                          to |-> r.p.taken, ok |-> r.res.ok])],
           r.res)

prefix_binding_power_below_power(op) ==
    IF op = Token("Minus") THEN Ok(<<<<>>, 5>>)
    ELSE Err(ParserError(<<"Bad prefix operator: ", op>>))

prefix_binding_power(op) ==
    IF op = Token("Minus") THEN Ok(<<<<>>, 9>>)
    ELSE Err(ParserError(<<"Bad prefix operator: ", op>>))

infix_binding_power_left_power(op) ==
    CASE op \in {Token("Plus"), Token("Minus")} -> Some(<<1, 2>>)
      [] op \in {Token("Multiply"), Token("Divide"), Token("Percent")} -> Some(<<3, 4>>)
      [] op = Token("Power") -> Some(<<5, 6>>)
      [] OTHER -> None

infix_binding_power(op) ==
    CASE op \in {Token("Plus"), Token("Minus")} -> Some(<<1, 2>>)
      [] op \in {Token("Multiply"), Token("Divide"), Token("Percent")} -> Some(<<3, 4>>)
      [] op = Token("Power") -> Some(<<6, 5>>)
      [] OTHER -> None

Binding_additive(op, b) ==
    IF b /= None THEN Some(<<TRUE, b[1][1], b[1][2]>>)
    ELSE IF op.tok \in {"LParen", "Identifier"} THEN Some(<<FALSE, 1, 2>>)
    ELSE None

\* parse_bp, the match on infix_binding_power(op): (is_explicit, l_bp,
\* r_bp), or None where the loop breaks.
Binding(op, b) ==
    IF b /= None THEN Some(<<TRUE, b[1][1], b[1][2]>>)
    ELSE IF op.tok \in {"LParen", "Identifier"} THEN Some(<<FALSE, 3, 4>>)
    ELSE None

\* parse_bp, the match that turns the operator token into a BinaryOp.
bin_op(token) ==
    CASE token = Token("Plus") -> Ok("Add")
      [] token = Token("Minus") -> Ok("Sub")
      [] token = Token("Multiply") -> Ok("Mul")
      [] token = Token("Divide") -> Ok("Div")
      [] token = Token("Power") -> Ok("Pow")
      [] token = Token("Percent") -> Ok("Mod")
      [] OTHER -> Err(ParserError(<<"Unknown infix operator: ", token>>))

\* handle_identifier, the loop that validates the parsed arguments as
\* parameters: the parameter names, or None at the first argument that is
\* not a Variable.
RECURSIVE Params(_)
Params(args) ==
    IF args = <<>> THEN Some(<<>>)
    ELSE IF args[1].k /= "Variable" THEN None
    ELSE LET rest == Params(Tail(args))
         IN  IF rest = None THEN None
             ELSE Some(<<args[1].name>> \o rest[1])

unexpected_eof_accepted(p) == Parsed(p, Ok(Literal(Integer(0))))

\* parse_bp, the Token::Eof arm of the prefix match.
unexpected_eof(p) == Fail(p, <<"Unexpected EOF">>)

function_def_unchecked(name, args, r) ==
    IF ~r.res.ok THEN r
    ELSE Parsed(r.p, Ok(FunctionDef(name,
                                    [i \in DOMAIN args |->
                                        IF args[i].k = "Variable"
                                        THEN args[i].name ELSE "_"],
                                    r.res.val)))

\* handle_identifier, after the body r of a definition was parsed.
function_def(name, args, r) ==
    IF ~r.res.ok THEN r
    ELSE IF Params(args) = None
    THEN Fail(r.p, <<"Function parameters must be identifiers">>)
    ELSE Parsed(r.p, Ok(FunctionDef(name, Params(args)[1], r.res.val)))

\* handle_identifier, the Assignment arm after its expression r was parsed.
assignment(name, r) ==
    IF ~r.res.ok THEN r ELSE Parsed(r.p, Ok(Assignment(name, r.res.val)))

\* parse_bp, the LParen arm after the inner expression r was parsed.
close_paren(r) ==
    IF ~r.res.ok THEN r
    ELSE IF current(r.p) = Token("RParen") THEN Parsed(advance(r.p), r.res)
    ELSE Fail(r.p, <<"Expected ')'">>)

\* parse_bp, the Minus arm after the operand r was parsed.
negation(r) ==
    IF ~r.res.ok THEN r ELSE Parsed(r.p, Ok(UnaryOp("Neg", r.res.val)))

RECURSIVE parse_bp(_, _)
RECURSIVE parse_prefix(_, _)
RECURSIVE operator_loop(_, _)
RECURSIVE infix(_, _, _, _)
RECURSIVE infix_rhs(_, _, _, _, _)
RECURSIVE infix_done(_, _, _, _, _)
RECURSIVE handle_identifier(_, _)
RECURSIVE call_or_def(_, _)
RECURSIVE parse_arguments(_)
RECURSIVE arguments_loop(_, _)
RECURSIVE arguments_next(_, _, _)

\* parse_bp, the prefix match on the token taken from current.
parse_prefix(token, p) ==
    CASE token.tok = "Float" -> Parsed(p, Ok(Literal(Float(token.v))))
      [] token.tok = "Integer" -> Parsed(p, Ok(Literal(Integer(token.v))))
      [] token.tok = "Identifier" -> handle_identifier(p, token.v)
      [] token.tok = "LParen" -> close_paren(parse_bp(p, 0))
      [] token.tok = "Minus" ->
            IF prefix_binding_power(Token("Minus")).ok
            THEN negation(parse_bp(p, prefix_binding_power(Token("Minus")).val[2]))
            ELSE Parsed(p, prefix_binding_power(Token("Minus")))
      [] token.tok = "Eof" -> unexpected_eof(p)
      [] OTHER -> Fail(p, <<"Unexpected token: ", token>>)

\* parse_bp, one explicit or implicit binary operator with binding b whose
\* left binding power is high enough: from is the count of tokens taken
\* when the iteration began.
infix(r, min_bp, b, from) ==
    IF b[1]
    THEN infix_rhs(bin_op(advance_with_token(r.p).token),
                   advance_with_token(r.p).p, r.res.val, <<min_bp, b[3]>>,
                   from)
    ELSE infix_rhs(Ok("Mul"), r.p, r.res.val, <<min_bp, b[3]>>, from)

\* parse_bp, the right operand of the operator op (the result of the match
\* on the operator token); bp is <<min_bp, r_bp>>.
infix_rhs(op, p, lhs, bp, from) ==
    IF ~op.ok THEN Done("operator_loop", from, Parsed(p, op))
    ELSE infix_done(op.val, lhs, parse_bp(p, bp[2]), bp[1], from)

infix_done(op, lhs, rhs, min_bp, from) ==
    IF ~rhs.res.ok THEN Done("operator_loop", from, rhs)
    ELSE operator_loop(
             Done("operator_loop", from,
                  Parsed(rhs.p, Ok(BinaryOp(op, lhs, rhs.res.val)))),
             min_bp)

\* parse_bp, the loop over infix and postfix operators; r holds the parser
\* and Ok(lhs).
operator_loop(r, min_bp) ==
    IF current(r.p) = Token("Eof") THEN r
    ELSE IF current(r.p) = Token("Factorial")
    THEN IF 11 < min_bp THEN r
         ELSE operator_loop(
                  Done("operator_loop", r.p.taken,
                       Parsed(advance(r.p),
                              Ok(UnaryOp("Factorial", r.res.val)))),
                  min_bp)
    ELSE IF Binding(current(r.p), infix_binding_power(current(r.p))) = None
    THEN r
    ELSE IF Binding(current(r.p), infix_binding_power(current(r.p)))[1][2]
                < min_bp
    THEN r
    ELSE infix(r, min_bp,
               Binding(current(r.p), infix_binding_power(current(r.p)))[1],
               r.p.taken)

\* parse_bp, after the prefix part r.
parse_infix(r, min_bp) == IF ~r.res.ok THEN r ELSE operator_loop(r, min_bp)

parse_bp_taken(t, min_bp, from) ==
    Done("parse_bp", from, parse_infix(parse_prefix(t.token, t.p), min_bp))

parse_bp(p, min_bp) == parse_bp_taken(advance_with_token(p), min_bp, p.taken)

\* handle_identifier, the LParen arm after the argument list a was parsed;
\* a.res holds Ok(args).
call_or_def(name, a) ==
    IF ~a.res.ok THEN a
    ELSE IF current(a.p) = Token("Equals")
    THEN function_def(name, a.res.val, parse_bp(advance(a.p), 0))
    ELSE Parsed(a.p, Ok(FunctionCall(name, a.res.val)))

handle_identifier(p, name) ==
    CASE current(p) = Token("LParen") ->
            call_or_def(name, parse_arguments(advance(p)))
      [] current(p) = Token("Equals") -> assignment(name, parse_bp(advance(p), 0))
      [] OTHER -> Parsed(p, Ok(Variable(name)))

\* parse_arguments, after one argument r was parsed and pushed.
arguments_next(args, r, from) ==
    IF ~r.res.ok THEN Done("arguments_loop", from, r)
    ELSE IF current(r.p) = Token("Comma")
    THEN arguments_loop(
             Done("arguments_loop", from, Parsed(advance(r.p), r.res)).p,
             Append(args, r.res.val))
    ELSE IF current(r.p) = Token("RParen")
    THEN Done("arguments_loop", from,
              Parsed(advance(r.p), Ok(Append(args, r.res.val))))
    ELSE Done("arguments_loop", from,
              Fail(r.p, <<"Expected ',' or ')' in argument list">>))

arguments_loop(p, args) == arguments_next(args, parse_bp(p, 0), p.taken)

parse_arguments(p) ==
    IF current(p) = Token("RParen") THEN Parsed(advance(p), Ok(<<>>))
    ELSE arguments_loop(p, <<>>)

parse_accept_rest(r) == r

\* parse, the check after parse_bp(0) returned r.
parse_end(r) ==
    IF ~r.res.ok THEN r
    ELSE IF current(r.p) /= Token("Eof")
    THEN Fail(r.p, <<"Unexpected token at end: ", current(r.p)>>)
    ELSE r

\* parse, with the parser state it ends in.
Parse(expression) ==
    parse_end(parse_bp(ParserNew(fetch_next_token(LexerNext(Lexer(expression)))),
                       0))

parse(expression) == Parse(expression).res

\* parse on a text.
parse_text(chars) ==
    parse_end(parse_bp(ParserNew(fetch_next_token(LexerNext(TextLexer(chars)))),
                       0)).res

(***************************************************************************)
(* Inputs of parse.                                                        *)
(***************************************************************************)
\* Longest input drawn from every sequence over Alphabet.
MaxTokens == 3
\* Most binary operators in a chain of operands.
MaxOperators == 3

Alphabet == {"+", "-", "*", "^", "!", "(", ")", ",", "=", "1", "a", "$"}

RECURSIVE SeqsUpTo(_, _)
SeqsUpTo(S, n) ==
    IF n = 0 THEN {<<>>}
    ELSE SeqsUpTo(S, n - 1)
            \cup {Append(s, x) : s \in {t \in SeqsUpTo(S, n - 1) : Len(t) = n - 1},
                                 x \in S}

BinaryLexemes == {"+", "-", "*", "/", "%", "^"}
OperandLexemes == <<"a", "b", "c", "d", "x", "1", "2", "3">>

\* Operands joined by explicit binary operators: a op b op c ...
RECURSIVE Chain(_)
Chain(ops) ==
    IF ops = <<>> THEN <<OperandLexemes[1]>>
    ELSE Chain(SubSeq(ops, 1, Len(ops) - 1))
            \o <<ops[Len(ops)], OperandLexemes[Len(ops) + 1]>>

OperatorChains == {Chain(ops) : ops \in SeqsUpTo(BinaryLexemes, MaxOperators)}

\* Prefix minus and postfix factorial among the binary operators.
SignedForms ==
    {<<"-", "a", op, "b">> : op \in BinaryLexemes}
        \cup {<<"a", op, "-", "b">> : op \in BinaryLexemes}
        \cup {<<"-", "a", "!">>, <<"-", "-", "a">>, <<"-", "a", "!", "^", "b">>,
              <<"a", "^", "b", "!">>, <<"-", "(", "a", "^", "b", ")">>,
              <<"-", "0.5", "^", "2.">>, <<"-", "0x10", "^", "0b11">>,
              <<"a", "^", "-", "b", "^", "c">>, <<"-", "a", "^", "-", "b">>,
              <<"-", "a", "b">>, <<"-", "2", "(", "a", ")">>}

\* Argument lists and what follows them.
ArgumentForms ==
    {<<"a">>, <<"b">>, <<"1">>, <<"a", "+", "b">>, <<"g", "(", "a", ")">>,
     <<"a", "=", "1">>, <<"2", "a">>, <<"a", "b">>, <<"(", "a", ")">>,
     <<"-", "a">>, <<"a", "!">>, <<"1e1">>}

ArgumentLists ==
    {<<>>} \cup ArgumentForms
        \cup {x \o <<",">> \o y : x \in ArgumentForms, y \in ArgumentForms}

BodyForms ==
    {<<"a">>, <<"a", "+", "1">>, <<"f", "(", "a", ")">>, <<"a", "=", "b">>,
     <<>>, <<"a", ")">>, <<"a", ",", "b">>, <<"+">>}

CallForms == {<<"f", "(">> \o args \o <<")">> : args \in ArgumentLists}

DefinitionForms ==
    CallForms
        \cup {call \o <<"=">> \o body : call \in CallForms, body \in BodyForms}
        \cup {<<"2", "+">> \o call \o <<"=", "a">> : call \in CallForms}
        \cup {call \o <<"(", "b", ")">> : call \in CallForms}

\* Terms set side by side, with or without an operator between them.
TermForms ==
    {<<"2">>, <<"a">>, <<"(", "a", ")">>, <<"f", "(", "a", ")">>, <<"2", "!">>,
     <<"-", "a">>, <<"a", "^", "2">>, <<"(", "a", "+", "b", ")">>}

GlueForms == {<<>>, <<"*">>, <<"^">>, <<"+">>}

Juxtapositions ==
    {x \o g \o y : x \in TermForms, g \in GlueForms, y \in TermForms}
        \cup {x \o g \o y \o h \o z :
                x \in TermForms, g \in GlueForms, y \in TermForms,
                h \in GlueForms, z \in {<<"b">>, <<"(", "b", ")">>, <<"3">>}}

\* Inputs with a lexeme that no rule matches.
ErrorForms ==
    {<<"$">>, <<"1", "+", "$">>, <<"(", "$", ")">>, <<"(", "1", "$", ")">>,
     <<"f", "(", "$", ")">>, <<"f", "(", "a", ",", "$", ")">>,
     <<"f", "(", "a", "$", ")">>, <<"f", "(", "a", ")", "=", "$">>,
     <<"a", "=", "$">>, <<"1", "$", "2">>, <<"-", "$">>, <<"1", "!", "$">>,
     <<"1", "@">>, <<"#", "1">>}

\* Inputs with tokens after a complete expression.
TrailingForms ==
    {<<"1", "2">>, <<"1", ")">>, <<"a", "+", "b", ")">>, <<"f", "(", "a", ")", ",">>,
     <<"(", "a", ")", "2">>, <<"a", "!", "=", "1">>, <<"1", "0.5">>}

Sources ==
    SeqsUpTo(Alphabet, MaxTokens) \cup OperatorChains \cup SignedForms
        \cup DefinitionForms \cup Juxtapositions \cup ErrorForms
        \cup TrailingForms

(***************************************************************************)
(* parse as a state machine: the host holds an expression and parses it.   *)
(***************************************************************************)
ParseRecord(op, source, r) ==
    [op |-> op, source |-> source, res |-> r.res, log |-> r.p.log,
     taken |-> r.p.taken, current |-> r.p.current]

InitParse ==
    /\ scopes = ContextNew.scopes
    /\ functions = ContextNew.functions
    /\ NoManager
    /\ last \in {[op |-> "source", source |-> s] : s \in Sources}

ParseSource ==
    /\ last.op = "source"
    /\ last' = ParseRecord("parse", last.source, Parse(last.source))
    /\ UNCHANGED <<scopes, functions>>
    /\ UNCHANGED manager

NextParse == ParseSource

SpecParse == InitParse /\ [][NextParse]_vars

(***************************************************************************)
(* Session manager: session_manager.rs.  Buffers, results and history      *)
(* entries are Strings, sequences of characters.                           *)
(***************************************************************************)
\* The characters of the string literals of the code.
Chars(s) ==
    CASE s = "Error" ->
            <<"E", "r", "r", "o", "r">>
      [] s = "Error: " ->
            <<"E", "r", "r", "o", "r", ":", " ">>
      [] s = "Not an integer" ->
            <<"N", "o", "t", " ", "a", "n", " ", "i", "n", "t", "e", "g",
              "e", "r">>
      [] s = "ParserError(\"" ->
            <<"P", "a", "r", "s", "e", "r", "E", "r", "r", "o", "r", "(",
              "\"">>
      [] s = "UndefinedVariable(\"" ->
            <<"U", "n", "d", "e", "f", "i", "n", "e", "d", "V", "a", "r",
              "i", "a", "b", "l", "e", "(", "\"">>
      [] s = "\")" ->
            <<"\"", ")">>
      [] s = "Unexpected EOF" ->
            <<"U", "n", "e", "x", "p", "e", "c", "t", "e", "d", " ", "E",
              "O", "F">>
      [] s = "Unexpected token: " ->
            <<"U", "n", "e", "x", "p", "e", "c", "t", "e", "d", " ", "t",
              "o", "k", "e", "n", ":", " ">>
      [] s = "Unexpected token at end: " ->
            <<"U", "n", "e", "x", "p", "e", "c", "t", "e", "d", " ", "t",
              "o", "k", "e", "n", " ", "a", "t", " ", "e", "n", "d", ":",
              " ">>
      [] s = "Percent" ->
            <<"P", "e", "r", "c", "e", "n", "t">>

\* BigInt::to_str_radix, with the upper-case digits of {:X}.
RECURSIVE to_str_radix(_, _)
to_str_radix(n, radix) ==
    IF n < 0 THEN <<"-">> \o to_str_radix(0 - n, radix)
    ELSE IF n < radix THEN <<HexDigits[n + 1]>>
    ELSE to_str_radix(n \div radix, radix) \o <<HexDigits[(n % radix) + 1]>>

\* BigInt::to_string.
to_string(n) == to_str_radix(n, 10)

\* str::starts_with.
starts_with(s, prefix) ==
    /\ Len(s) >= Len(prefix)
    /\ SubSeq(s, 1, Len(prefix)) = prefix

\* engine::evaluate on the result of parse: the value or error, and the
\* context as the evaluation leaves it.
engine_eval(parsed, context) ==
    IF ~parsed.ok THEN [res |-> parsed, context |-> context]
    ELSE LET r == eval(parsed.val, context)
         IN  [res |-> r.res,
              context |-> [scopes |-> r.m.scopes, functions |-> r.m.functions]]

\* engine::evaluate(expression, context).
engine_evaluate(expression, context) ==
    engine_eval(parse_text(expression), context)

\* utils::format_number on an Integer.
format_number(n) ==
    CASE n.t = "Integer" -> to_string(n.v)

\* {:?} of a Token without payload.
DebugToken(token) == Chars(token.tok)

\* The characters of an identifier of the text expression.
NameChars(name, expression) ==
    CHOOSE run \in Range(Lexemes(expression, 1)) :
        run[1] \in LetterChars /\ Str(run) = name

\* {:?} of the EngineError that evaluating the text expression returned.
DebugEngineError(e, expression) ==
    CASE e.e = "ParserError" ->
            Chars("ParserError(\"") \o Chars(e.msg[1])
                \o (IF Len(e.msg) > 1 THEN DebugToken(e.msg[2]) ELSE <<>>)
                \o Chars("\")")
      [] e.e = "UndefinedVariable" ->
            Chars("UndefinedVariable(\"") \o NameChars(e.name, expression)
                \o Chars("\")")

\* The result string of evaluate for the result of engine::evaluate.  Both
\* branches on show_fractions call format_number, which prints an Integer
\* one way.
ResultString(res, expression, show_fractions) ==
    IF res.ok
    THEN (IF show_fractions THEN format_number(res.val) ELSE format_number(res.val))
    ELSE Chars("Error: ") \o DebugEngineError(res.val, expression)

\* HistoryEntry; the timestamp, read from the wall clock, is left out.
HistoryEntry(expression, result) ==
    [expression |-> expression, result |-> result,
     is_error |-> starts_with(result, Chars("Error"))]

\* The Session that default_state and create_session build.
SessionNew(id, name) ==
    [id |-> id, name |-> name, history |-> <<>>, context |-> ContextNew,
     buffer |-> <<"0">>, last_result |-> None, mode |-> "STANDARD"]

\* format!("Session {}", n)
SessionName(n) == "Session " \o Str(to_string(n))

\* default_state, with the uuid drawn.
default_state(id) ==
    [sessions |-> (id :> SessionNew(id, SessionName(1))),
     current_session_id |-> id, show_fractions |-> FALSE]

\* Mutex::new(AppState): nobody holds it and no holder has panicked.
MutexNew(data) == [data |-> data, holder |-> None, poisoned |-> FALSE]

\* The PersistentState that save writes to the storage path.
save(s) ==
    Some([sessions |-> {s.sessions[id] : id \in DOMAIN s.sessions},
          current_session_id |-> s.current_session_id,
          show_fractions |-> s.show_fractions])

\* What a call leaves: the AppState, the value returned and whether save ran.
Outcome(s, ret, saved) == [state |-> s, ret |-> ret, saved |-> saved]

create_session(s, id) ==
    Outcome([s EXCEPT
                 !.sessions =
                     (id :> SessionNew(id, SessionName(Cardinality(DOMAIN s.sessions) + 1)))
                         @@ @,
                 !.current_session_id = id],
             id, TRUE)

switch_session(s, id) ==
    IF id \in DOMAIN s.sessions
    THEN Outcome([s EXCEPT !.current_session_id = id], TRUE, TRUE)
    ELSE Outcome(s, FALSE, FALSE)

\* HashMap::remove.
Remove(map, key) == [k \in DOMAIN map \ {key} |-> map[k]]

\* The outcomes of keys().next(): any key of the map, None when it is empty.
KeysNext(map) ==
    IF DOMAIN map = {} THEN {None} ELSE {Some(k) : k \in DOMAIN map}

delete_session_any(s, id, first) ==
    IF id \in DOMAIN s.sessions
    THEN Outcome([s EXCEPT
                     !.sessions = Remove(@, id),
                     !.current_session_id =
                         IF @ = id /\ first /= None THEN first[1] ELSE @],
                 TRUE, TRUE)
    ELSE Outcome(s, FALSE, FALSE)

\* delete_session; first is what keys().next() gives on the sessions that
\* remain.
delete_session(s, id, first) ==
    IF Cardinality(DOMAIN s.sessions) <= 1
    THEN Outcome(s, FALSE, FALSE)
    ELSE IF id \in DOMAIN s.sessions
    THEN Outcome([s EXCEPT
                     !.sessions = Remove(@, id),
                     !.current_session_id =
                         IF @ = id /\ first /= None THEN first[1] ELSE @],
                 TRUE, TRUE)
    ELSE Outcome(s, FALSE, FALSE)

rename_session(s, id, new_name) ==
    IF id \in DOMAIN s.sessions
    THEN Outcome([s EXCEPT !.sessions[id].name = new_name], TRUE, TRUE)
    ELSE Outcome(s, FALSE, FALSE)

\* set_fraction_display returns nothing.
set_fraction_display(s, enabled) ==
    Outcome([s EXCEPT !.show_fractions = enabled], None, TRUE)

\* The closures that input, clear and backspace hand to update_buffer.
input(buf, text) ==
    IF buf = <<"0">> /\ text /= <<".">> THEN text ELSE buf \o text

clear(buf) == <<"0">>

backspace(buf) ==
    IF Len(buf) > 0 /\ buf /= <<"0">>
    THEN IF Len(buf) = 1 THEN <<"0">> ELSE SubSeq(buf, 1, Len(buf) - 1)
    ELSE <<"0">>

\* op(&session.buffer) for the call made.
BufferOp(call, buf) ==
    CASE call.op = "input" -> input(buf, call.text)
      [] call.op = "clear" -> clear(buf)
      [] call.op = "backspace" -> backspace(buf)

update_buffer(s, call) ==
    IF s.current_session_id \in DOMAIN s.sessions
    THEN LET new_buf == BufferOp(call, s.sessions[s.current_session_id].buffer)
         IN  Outcome([s EXCEPT !.sessions[s.current_session_id].buffer = new_buf],
                      new_buf, TRUE)
    ELSE Outcome(s, Chars("Error"), FALSE)

\* evaluate after engine::evaluate returned: the history entry, the buffer
\* and last_result.
evaluate_update(s, id, expr, result) ==
    Outcome([s EXCEPT
                 !.sessions[id].history = Append(@, HistoryEntry(expr, result)),
                 !.sessions[id].buffer = result,
                 !.sessions[id].last_result = Some(result)],
             result, TRUE)

\* The radix and prefix that convert_to_hex, convert_to_bin and
\* convert_to_oct hand to convert_base.
Radix(op) ==
    CASE op = "convert_to_hex" -> [radix |-> 16, prefix |-> <<"0", "x">>]
      [] op = "convert_to_bin" -> [radix |-> 2, prefix |-> <<"0", "b">>]
      [] op = "convert_to_oct" -> [radix |-> 8, prefix |-> <<"0", "o">>]

\* convert_base after engine::evaluate returned res on the buffer of session
\* id: an Integer replaces the buffer by its digits in the radix, and the
\* state is saved; anything else leaves the buffer and the file.
convert_base(s, id, radix, prefix, res) ==
    IF res.ok /\ res.val.t = "Integer"
    THEN Outcome([s EXCEPT !.sessions[id].buffer =
                               prefix \o to_str_radix(res.val.v, radix)],
                 prefix \o to_str_radix(res.val.v, radix), TRUE)
    ELSE Outcome(s, Chars("Not an integer"), FALSE)

(***************************************************************************)
(* The manager as a state machine.  state is the Mutex<AppState> of the    *)
(* AppSessionManager and disk the file at its storage path.  last records  *)
(* the latest call that ended: the AppState and the file it found, its     *)
(* argument and what it returned.                                          *)
(***************************************************************************)
\* The ids uuid::Uuid::new_v4 draws; no id is drawn twice.
Uuids == 1..MaxSessions
\* Ids a host passes: those drawn and one that never was.
SessionArgs == 0..MaxSessions
\* Names a host passes to rename_session.
NewNames == {"A", SessionName(1)}

Threads == {1, 2}
\* Texts a host passes to input.
InputTexts == {<<"1">>, <<"%", "0">>}

\* A call and its argument: the text of input, the flag of
\* set_fraction_display as the host writes it.
BufferCall(op, text) == [op |-> op, text |-> text]
BufferCalls ==
    {BufferCall("input", text) : text \in InputTexts}
        \cup {BufferCall("clear", <<>>), BufferCall("backspace", <<>>)}
EvaluateCall == BufferCall("evaluate", <<>>)
ConvertCalls ==
    {BufferCall(op, <<>>) : op \in {"convert_to_hex", "convert_to_bin", "convert_to_oct"}}
FractionCalls ==
    {BufferCall("set_fraction_display", flag) : flag \in {<<"true">>, <<"false">>}}
ManagerCalls == BufferCalls \cup {EvaluateCall} \cup ConvertCalls \cup FractionCalls

ManagerRecord(op, t, arg, pre, res) ==
    [op |-> op, thread |-> t, arg |-> arg, pre |-> pre, file |-> disk,
     res |-> res]

\* A thread outside every call, after n calls.
Idle(n) ==
    [pc |-> "idle", calls |-> n, call |-> BufferCall("none", <<>>),
     pre |-> None, id |-> 0, expr |-> <<>>, result |-> <<>>]

\* AppSessionManager::new on a path where no file exists.
InitManager ==
    /\ scopes = ContextNew.scopes
    /\ functions = ContextNew.functions
    /\ \E id \in Uuids : state = MutexNew(default_state(id))
    /\ threads = [t \in Threads |-> Idle(0)]
    /\ disk = None
    /\ last = [op |-> "new", thread |-> 0, arg |-> None, pre |-> None,
               file |-> None, res |-> None]

\* A call made while no other call runs: it takes the mutex, acts, saves
\* and releases the mutex when it returns.
Return(op, arg, r) ==
    /\ state.holder = None
    /\ ~state.poisoned
    /\ state' = [state EXCEPT !.data = r.state]
    /\ disk' = IF r.saved THEN save(r.state) ELSE disk
    /\ last' = ManagerRecord(op, 0, arg, state.data, r.ret)
    /\ UNCHANGED <<scopes, functions, threads>>

CreateSession ==
    /\ Cardinality(DOMAIN state.data.sessions) < MaxSessions
    /\ \E id \in Uuids \ DOMAIN state.data.sessions :
          Return("create_session", None, create_session(state.data, id))

SwitchSession(id) ==
    Return("switch_session", id, switch_session(state.data, id))

DeleteSession(id) ==
    \E first \in KeysNext(Remove(state.data.sessions, id)) :
        Return("delete_session", id, delete_session(state.data, id, first))

RenameSession(id, new_name) ==
    Return("rename_session", id, rename_session(state.data, id, new_name))

SetFractionDisplay(enabled) ==
    Return("set_fraction_display", enabled,
           set_fraction_display(state.data, enabled))

NextSession ==
    \/ CreateSession
    \/ \E id \in SessionArgs : SwitchSession(id)
    \/ \E id \in SessionArgs : DeleteSession(id)
    \/ \E id \in SessionArgs, new_name \in NewNames : RenameSession(id, new_name)
    \/ \E enabled \in BOOLEAN : SetFractionDisplay(enabled)

SpecSession == InitManager /\ [][NextSession]_vars

(***************************************************************************)
(* Calls from several threads.  A call is the steps of its thread: taking  *)
(* the mutex, the body, and the return that drops the guard.               *)
(***************************************************************************)
\* self.state.lock().unwrap(): the thread waits while another holds the
\* mutex.
Lock(t, call) ==
    /\ threads[t].pc = "idle"
    /\ threads[t].calls < MaxCalls
    /\ state.holder = None
    /\ ~state.poisoned
    /\ state' = [state EXCEPT !.holder = Some(t)]
    /\ threads' = [threads EXCEPT ![t] =
                      [@ EXCEPT !.pc = "locked", !.call = call,
                                !.pre = Some(state.data)]]
    /\ UNCHANGED <<scopes, functions, last, disk>>

\* lock() on a mutex whose holder panicked returns Err and unwrap panics.
LockPoisoned(t, call) ==
    /\ threads[t].pc = "idle"
    /\ threads[t].calls < MaxCalls
    /\ state.holder = None
    /\ state.poisoned
    /\ threads' = [threads EXCEPT ![t] = [@ EXCEPT !.pc = "panicked", !.call = call]]
    /\ last' = ManagerRecord(call.op, t, call.text, state.data, Panic("PoisonError"))
    /\ UNCHANGED <<scopes, functions, state, disk>>

\* The thread returns r.ret and its guard is dropped.
Unlock(t, r) ==
    /\ state' = [state EXCEPT !.data = r.state, !.holder = None]
    /\ disk' = IF r.saved THEN save(r.state) ELSE disk
    /\ threads' = [threads EXCEPT ![t] = Idle(@.calls + 1)]
    /\ last' = ManagerRecord(threads[t].call.op, t, threads[t].call.text,
                             threads[t].pre[1], r.ret)
    /\ UNCHANGED <<scopes, functions>>

\* update_buffer under the guard: input, clear and backspace.
UpdateBuffer(t) ==
    /\ threads[t].pc = "locked"
    /\ threads[t].call \in BufferCalls
    /\ Unlock(t, update_buffer(state.data, threads[t].call))

\* set_fraction_display under the guard.
SetFractionDisplayLocked(t) ==
    /\ threads[t].pc = "locked"
    /\ threads[t].call \in FractionCalls
    /\ Unlock(t, set_fraction_display(state.data, threads[t].call.text = <<"true">>))

\* engine::evaluate panicked on the context of session id while the thread
\* held the guard: the thread unwinds, which poisons the mutex and leaves
\* the context as the evaluation had it.
EnginePanicked(t, id, r) ==
    /\ state' = [state EXCEPT !.data.sessions[id].context = r.context,
                              !.holder = None, !.poisoned = TRUE]
    /\ threads' = [threads EXCEPT ![t] = [@ EXCEPT !.pc = "panicked"]]
    /\ last' = ManagerRecord(threads[t].call.op, t, <<>>, threads[t].pre[1],
                             Panic(r.res.val.msg))
    /\ UNCHANGED <<scopes, functions, disk>>

\* evaluate after engine::evaluate ended with r on the buffer expr of
\* session id; when it returned, the thread holds expr and the result
\* string.
EvaluateEngine(t, id, expr, r) ==
    IF ~r.res.ok /\ r.res.val.e = "Panicked"
    THEN EnginePanicked(t, id, r)
    ELSE /\ state' = [state EXCEPT !.data.sessions[id].context = r.context]
         /\ threads' = [threads EXCEPT ![t] =
                           [@ EXCEPT !.pc = "evaluated", !.id = id,
                                     !.expr = expr,
                                     !.result = ResultString(r.res, expr,
                                                             state.data.show_fractions)]]
         /\ UNCHANGED <<scopes, functions, last, disk>>

\* evaluate under the guard, up to the result of engine::evaluate; without
\* a current session it returns "Error".
EvaluateRead(t) ==
    /\ threads[t].pc = "locked"
    /\ threads[t].call = EvaluateCall
    /\ LET id == state.data.current_session_id
       IN  IF id \in DOMAIN state.data.sessions
           THEN EvaluateEngine(t, id, state.data.sessions[id].buffer,
                               engine_evaluate(state.data.sessions[id].buffer,
                                               state.data.sessions[id].context))
           ELSE Unlock(t, Outcome(state.data, Chars("Error"), FALSE))

\* evaluate from the history entry to its return.
EvaluateUpdate(t) ==
    /\ threads[t].pc = "evaluated"
    /\ Unlock(t, evaluate_update(state.data, threads[t].id, threads[t].expr,
                                 threads[t].result))

\* convert_base after engine::evaluate ended with r on the buffer of
\* session id.
ConvertEngine(t, id, base, r) ==
    IF ~r.res.ok /\ r.res.val.e = "Panicked"
    THEN EnginePanicked(t, id, r)
    ELSE Unlock(t, convert_base([state.data EXCEPT !.sessions[id].context = r.context],
                                id, base.radix, base.prefix, r.res))

\* convert_to_hex, convert_to_bin and convert_to_oct under the guard;
\* without a current session they return "Error".
ConvertBase(t) ==
    /\ threads[t].pc = "locked"
    /\ threads[t].call \in ConvertCalls
    /\ LET id == state.data.current_session_id
       IN  IF id \in DOMAIN state.data.sessions
           THEN ConvertEngine(t, id, Radix(threads[t].call.op),
                              engine_evaluate(state.data.sessions[id].buffer,
                                              state.data.sessions[id].context))
           ELSE Unlock(t, Outcome(state.data, Chars("Error"), FALSE))

NextThreads ==
    \/ \E t \in Threads, call \in ManagerCalls : Lock(t, call)
    \/ \E t \in Threads, call \in ManagerCalls : LockPoisoned(t, call)
    \/ \E t \in Threads : UpdateBuffer(t)
    \/ \E t \in Threads : SetFractionDisplayLocked(t)
    \/ \E t \in Threads : EvaluateRead(t)
    \/ \E t \in Threads : EvaluateUpdate(t)
    \/ \E t \in Threads : ConvertBase(t)

SpecThreads == InitManager /\ [][NextThreads]_vars


(***************************************************************************)
(* Properties.  They are stated on the record of the latest operation:     *)
(* Log is the history of the latest evaluation, Pre the context before it. *)
(***************************************************************************)
Log == last.log
Pre == last.pre
Evaluated == last.op = "eval"

\* Positions in the log of the events of one kind.
At(kind) == {k \in DOMAIN Log : Log[k].ev = kind}
\* Positions of the events of one kind that belong to call cid.
Of(kind, cid) == {k \in At(kind) : Log[k].cid = cid}

\* C1: when eval returns, with a value or with an error raised at any call
\* nesting, the scope stack has the depth it had before: every call, nested
\* ones included, returns at the depth it was made at, and every scope
\* pushed on call entry is popped before that call's result propagates.
C1_ScopeDepthRestored ==
    Evaluated =>
        /\ Len(scopes) = Len(Pre.scopes)
        /\ \A k \in At("return") : Log[k].depth = Log[Log[k].cid].depth
        /\ \A k \in At("push") :
               \E j \in Of("pop", Log[k].cid), r \in Of("return", Log[k].cid) :
                   /\ k < j
                   /\ j < r
                   /\ Len(Log[j].scopes) = Len(Log[k].scopes)

\* An evaluation that failed with an error raised two calls deep (the
\* failing call was made with three scopes on the stack) has returned.
C1_Witness ==
    /\ Evaluated
    /\ ~last.res.ok
    /\ \E k \in At("return") : Log[k].depth >= 3 /\ Log[k].res = last.res
    /\ Len(scopes) = 1

\* C2: in every state reachable through push_scope, pop_scope, set_var,
\* define_var and eval the stack holds at least one scope, no operation
\* removes the global scope or a binding of it, and pop_scope pops exactly
\* the innermost scope when there are two or more and nothing when there is
\* one.
C2_GlobalScopeKept ==
    /\ Len(scopes) >= 1
    /\ DOMAIN Pre.scopes[1] \subseteq DOMAIN scopes[1]
    /\ last.op = "pop_scope" =>
           IF Len(Pre.scopes) = 1
           THEN scopes = Pre.scopes
           ELSE scopes = SubSeq(Pre.scopes, 1, Len(Pre.scopes) - 1)

\* pop_scope has been called on a stack holding the global scope alone,
\* with a variable bound in it.
C2_Witness ==
    /\ last.op = "pop_scope"
    /\ Len(Pre.scopes) = 1
    /\ DOMAIN Pre.scopes[1] # {}
    /\ scopes = Pre.scopes

\* The scopes above the global one hold no binding in the column slot.
NoneAbove(slot) == \A i \in 2..Len(slot) : slot[i] = None

\* C3: an assignment executed inside a function body (at any nesting) to a
\* name that the global scope binds and no scope above it binds overwrites
\* the global binding and creates no binding in any other scope; when it is
\* the last assignment to the name in the evaluation, a top-level read of
\* the name afterwards returns the assigned value.
C3_GlobalOverwritten ==
    Evaluated =>
        \A k \in At("set") :
            (Log[k].frame # 0 /\ Log[k].pre[1] # None /\ NoneAbove(Log[k].pre)) =>
                /\ Log[k].post[1] = Some(Log[k].val)
                /\ NoneAbove(Log[k].post)
                /\ (\A j \in At("set") : j > k => Log[j].name # Log[k].name) =>
                       eval(Variable(Log[k].name), Context).res = Ok(Log[k].val)

\* g() called f(), whose body assigned 2 to x two calls deep while only the
\* global scope bound x (to 1); the global x is 2 afterwards.
C3_Witness ==
    /\ Evaluated
    /\ \E k \in At("set") :
           /\ Log[k].depth >= 3
           /\ Log[k].name = "x"
           /\ Log[k].val = Integer(2)
           /\ Log[k].pre[1] = Some(Integer(1))
           /\ NoneAbove(Log[k].pre)
    /\ scopes = <<MapInsert(Pre.scopes[1], "x", Integer(2))>>

\* C4: while a call whose function has parameter p is active, every read of
\* p returns, and every assignment to p overwrites, the binding of p in the
\* scope of the innermost such call, and no other binding changes; when the
\* call returns, every scope that was on the stack at call entry binds p as
\* it did at call entry.
C4_ParameterShadows ==
    Evaluated =>
        /\ \A k \in At("get") :
               Log[k].owner # 0 =>
                   /\ Log[k].pre[Log[k].owner] # None
                   /\ Log[k].res = Log[k].pre[Log[k].owner]
        /\ \A k \in At("set") :
               Log[k].owner # 0 =>
                   Log[k].post = [Log[k].pre EXCEPT ![Log[k].owner] = Some(Log[k].val)]
        /\ \A k \in At("push") :
               \A j \in Of("pop", Log[k].cid) :
                   \A p \in Range(Log[k].params) :
                       Slot(Log[j].scopes, p) = Slot(Log[k].scopes, p)

\* g(1) ran with the globals x = 1 and p = 1 bound: the body of g read its
\* parameter p, passed it to f(x), whose body assigned 2 to x; the global x
\* is still 1.
C4_Witness ==
    /\ Evaluated
    /\ last.res = Ok(Integer(2))
    /\ \E k \in At("push") :
           /\ Log[k].params = <<"x">>
           /\ Slot(Log[k].scopes, "x")[1] = Some(Integer(1))
    /\ \E k \in At("get") : Log[k].owner # 0 /\ Log[k].pre[1] # None
    /\ \E k \in At("set") : Log[k].owner # 0 /\ Log[k].val = Integer(2)
    /\ get_var(Context, "x") = Some(Integer(1))

\* C5: an assignment executed inside a function body to a name that no
\* scope binds creates the binding in the innermost scope, which belongs to
\* the innermost active call, and nowhere else; when that call returns no
\* scope binds the name; and unless the same evaluation assigns the name at
\* top level, a top-level read of it afterwards fails with
\* UndefinedVariable(name).
C5_LocalDiscarded ==
    Evaluated =>
        \A k \in At("set") :
            (Log[k].frame # 0 /\ \A i \in 1..Log[k].depth : Log[k].pre[i] = None) =>
                /\ Log[k].post = [Log[k].pre EXCEPT ![Log[k].depth] = Some(Log[k].val)]
                /\ \E j \in Of("pop", Log[k].frame) :
                       /\ j > k
                       /\ Len(Log[j].scopes) = Log[k].depth - 1
                       /\ \A i \in 1..Len(Log[j].scopes) :
                              Slot(Log[j].scopes, Log[k].name)[i] = None
                /\ (\A j \in At("set") : Log[j].name = Log[k].name => Log[j].depth > 1) =>
                       eval(Variable(Log[k].name), Context).res
                           = Err(UndefinedVariable(Log[k].name))

\* g() called f(), whose body assigned x two calls deep while nothing bound
\* x; the call returned a value and x is unbound afterwards.
C5_Witness ==
    /\ Evaluated
    /\ last.res = Ok(Integer(2))
    /\ \E k \in At("set") :
           /\ Log[k].depth >= 3
           /\ Log[k].name = "x"
           /\ \A i \in 1..Log[k].depth : Log[k].pre[i] = None
    /\ get_var(Context, "x") = None

\* Argument i of call c finished with a value before position k of the log.
ArgDoneBefore(c, i, k) ==
    \E j \in Of("argdone", c) : j < k /\ Log[j].i = i /\ Log[j].res.ok

\* C6: for every call, to a user function, a primitive or an unknown name,
\* each argument is evaluated once, at the caller's stack depth, after all
\* arguments to its left; the table lookup and arity check, the scope push,
\* the parameter binding, the body and the primitive all come after every
\* argument has been evaluated; a failing argument ends the call with its
\* error before any of them.  So if(c, x = 1, p = 1) leaves x and p bound to
\* 1 for c = 0 and for c = 1, whatever becomes of the call.
C6_ArgumentsFirst ==
    Evaluated =>
        /\ \A c \in At("call") :
               /\ Cardinality(Of("arg", c)) <= Log[c].nargs
               /\ \A k \in Of("arg", c) :
                      /\ Log[k].depth = Log[c].depth
                      /\ \A i \in 1..(Log[k].i - 1) : ArgDoneBefore(c, i, k)
               /\ \A k \in Of("resolve", c) \cup Of("push", c) \cup Of("bind", c)
                              \cup Of("body", c) \cup Of("apply", c) :
                      \A i \in 1..Log[c].nargs : ArgDoneBefore(c, i, k)
               /\ \A j \in Of("argdone", c) :
                      ~Log[j].res.ok =>
                          /\ Of("resolve", c) = {}
                          /\ j + 1 \in Of("return", c)
                          /\ Log[j + 1].res = Log[j].res
        /\ last.expr \in {IfThenElse(Int0), IfThenElse(Int1)} =>
               /\ get_var(Context, "x") = Some(Integer(1))
               /\ get_var(Context, "p") = Some(Integer(1))

\* if(0, x = 1, p = 1) ran on an empty global scope: the three argument
\* values reached functions::apply, which knows no "if", and both x and p
\* are bound.
C6_Witness ==
    /\ Evaluated
    /\ last.expr = IfThenElse(Int0)
    /\ Pre.scopes = <<EmptyMap>>
    /\ \E k \in At("apply") :
           /\ Log[k].name = "if"
           /\ Log[k].args = <<Integer(0), Integer(1), Integer(1)>>
    /\ last.res = Err(UnknownFunction("if"))
    /\ DOMAIN scopes[1] = {"x", "p"}

\* C7: a call that finds a user function whose parameter count differs from
\* the number of arguments returns ArgumentMismatch(name, parameter count)
\* at once: no scope is pushed, no parameter bound, the body not evaluated,
\* and the stack depth is the one of the lookup.
C7_ArityMismatch ==
    Evaluated =>
        \A k \in At("resolve") :
            (Log[k].entry # None /\ Log[k].given # Len(Log[k].entry[1].params)) =>
                /\ k + 1 \in Of("return", Log[k].cid)
                /\ Log[k + 1].res =
                       Err(ArgumentMismatch(Log[k].name, Len(Log[k].entry[1].params)))
                /\ Log[k + 1].depth = Log[k].depth
                /\ Of("push", Log[k].cid) = {}
                /\ Of("bind", Log[k].cid) = {}
                /\ Of("body", Log[k].cid) = {}
                /\ (Log[k].cid = 1 /\ last.expr.k = "FunctionCall") =>
                       last.res = Log[k + 1].res

\* f(x = 1) ran while f was a user function without parameters: the
\* argument was evaluated (x is bound) and the call failed.
C7_Witness ==
    /\ Evaluated
    /\ last.expr = FunctionCall("f", <<Assignment("x", Int1)>>)
    /\ "f" \in DOMAIN Pre.functions
    /\ Len(Pre.functions["f"].params) = 0
    /\ "x" \notin DOMAIN Pre.scopes[1]
    /\ get_var(Context, "x") = Some(Integer(1))
    /\ last.res = Err(ArgumentMismatch("f", 0))

\* The "return" event of call c.
Returned(c) == Log[CHOOSE r \in Of("return", c) : TRUE]

\* C8: a call resolves to the table entry of its name whenever there is one
\* - the primitive of that name, if any, is not applied and, the arity
\* matching, the body evaluated is the entry's; with no entry and a
\* registered name the primitive is applied to the argument values and its
\* result returned; with neither the call returns UnknownFunction(name).
C8_ResolutionOrder ==
    Evaluated =>
        \A k \in At("resolve") :
            LET c == Log[k].cid
                entry == Log[k].entry
            IN  /\ Cardinality(Of("return", c)) = 1
                /\ entry # None =>
                       /\ Of("apply", c) = {}
                       /\ Log[k].given = Len(entry[1].params) =>
                              \E b \in Of("body", c) : Log[b].body = entry[1].body
                /\ (entry = None /\ Log[k].registered) =>
                       /\ k + 1 \in Of("apply", c)
                       /\ Of("body", c) = {}
                       /\ Returned(c).res = apply(Log[k].name, Log[k + 1].args)
                       /\ Returned(c).res.ok \/ Returned(c).res.val.e # "UnknownFunction"
                /\ (entry = None /\ ~Log[k].registered) =>
                       /\ Of("body", c) = {}
                       /\ Returned(c).res = Err(UnknownFunction(Log[k].name))

\* abs(-1) ran while the table held a user function "abs", a name the
\* registry holds too: the body of the user function was evaluated.
C8_Witness ==
    /\ Evaluated
    /\ last.expr = AbsMinus1
    /\ \E k \in At("resolve") :
           /\ Log[k].cid = 1
           /\ Log[k].registered
           /\ Log[k].entry = Some(UserFunction(<<"p">>, FunctionCall("g", <<>>)))
    /\ \E b \in Of("body", 1) : Log[b].body = FunctionCall("g", <<>>)

\* The table entry of name that a lookup at position k of the log must
\* find: the one of the latest FunctionDef evaluated before k, or else the
\* one the table held when the evaluation began.
Newest(name, k) ==
    LET D == {j \in At("def") : j < k /\ Log[j].name = name}
    IN  IF D # {}
        THEN Some(Log[CHOOSE j \in D : \A i \in D : i <= j].func)
        ELSE IF name \in DOMAIN Pre.functions
             THEN Some(Pre.functions[name])
             ELSE None

\* C9: evaluating a FunctionDef sets the table entry of its name to its
\* parameters and body, whatever the table held, and changes no other entry;
\* it returns Integer 0, takes no other step (the body is not evaluated) and
\* leaves the scopes as they were.  Every later call of the name, in the same
\* evaluation or a later one, looks up the newest entry and evaluates its
\* body.
C9_DefinitionOverwrites ==
    Evaluated =>
        /\ last.expr.k = "FunctionDef" =>
               /\ last.res = Ok(Integer(0))
               /\ functions = MapInsert(Pre.functions, last.expr.name,
                                        UserFunction(last.expr.params, last.expr.body))
               /\ scopes = Pre.scopes
               /\ Len(Log) = 1
               /\ Log[1].ev = "def"
        /\ \A k \in At("resolve") : Log[k].entry = Newest(Log[k].name, k)
        /\ \A b \in At("body") :
               Some([params |-> Log[CHOOSE q \in Of("push", Log[b].cid) : TRUE].params,
                     body |-> Log[b].body])
                   = Newest(Log[Log[b].cid].name, b)
        /\ \A name \in DOMAIN functions :
               Some(functions[name]) = Newest(name, Len(Log) + 1)

\* u(f(x) = x = 2, f(1)) ran while the table held f with no parameter: the
\* definition replaced the entry and the call f(1) that followed it
\* evaluated the new body.
C9_Witness ==
    /\ Evaluated
    /\ last.expr = FunctionCall("u", <<DefFParam, FunctionCall("f", <<Int1>>)>>)
    /\ "f" \in DOMAIN Pre.functions
    /\ Pre.functions["f"].params = <<>>
    /\ functions["f"] = UserFunction(<<"x">>, Assignment("x", Int2))
    /\ \E b \in At("body") : Log[b].body = Assignment("x", Int2)

\* C10: no operation removes a name from the function table: the names
\* defined before an evaluation, and every name defined during it - inside
\* a function body whose scope has since been popped, or before the
\* evaluation failed - are defined after it.
C10_FunctionsKept ==
    /\ DOMAIN Pre.functions \subseteq DOMAIN functions
    /\ \A k \in At("def") : Log[k].name \in DOMAIN functions

\* f() + x + u() ran with f() = abs(p) = g(): the body of f defined "abs",
\* its scope was popped, the evaluation then failed, and "abs" is defined.
C10_Witness ==
    /\ Evaluated
    /\ ~last.res.ok
    /\ \E k \in At("def") :
           /\ Log[k].depth > 1
           /\ Log[k].name = "abs"
           /\ \E j \in At("pop") : j > k
    /\ "abs" \notin DOMAIN Pre.functions
    /\ DOMAIN functions = DOMAIN Pre.functions \cup {"abs"}
    /\ Cardinality(DOMAIN functions) >= 2

\* The evaluation state in which the host's call of eval on context c begins.
Begin(c) ==
    [scopes |-> c.scopes, functions |-> c.functions, log |-> <<>>,
     frames |-> [i \in 1..Len(c.scopes) |-> [cid |-> 0, params |-> {}]]]

RECURSIVE PlainEval(_, _)
\* Plain recursive evaluation of the operator structure of e: a binary node
\* evaluates its left operand, then its right operand, then applies the
\* operator; an assignment evaluates its right side and stores it; any
\* other node is a leaf of the operator structure.
PlainEval(e, m) ==
    CASE e.k = "BinaryOp" ->
            LET l == PlainEval(e.lhs, m)
            IN  IF ~l.res.ok
                THEN l
                ELSE LET r == PlainEval(e.rhs, l.m)
                     IN  IF ~r.res.ok
                         THEN r
                         ELSE Ret(r.m, Ok(ApplyBinaryOp(e.op, l.res.val, r.res.val)))
      [] e.k = "Assignment" ->
            LET r == PlainEval(e.expr, m)
            IN  IF ~r.res.ok THEN r ELSE EvalLeaf(Assignment(e.name, Literal(r.res.val)), r.m)
      [] OTHER -> Eval(e, m)

\* The operands of a chain, leftmost first.
RECURSIVE Operands(_)
Operands(e) ==
    IF e.k = "BinaryOp" THEN Append(Operands(e.lhs), e.rhs) ELSE <<e>>

\* C11: the result, the final context and the sequence of steps of the
\* iterative left-spine evaluation are those of plain recursive evaluation
\* (left operand, right operand, operator), whether the evaluation returns a
\* value or an error; a chain a op1 b op2 c of operands without side
\* effects on each other has the value of ((a op1 b) op2 c).
C11_LeftSpineIsRecursive ==
    Evaluated =>
        LET plain == PlainEval(last.expr, Begin(Pre))
        IN  /\ last.res = plain.res
            /\ scopes = plain.m.scopes
            /\ functions = plain.m.functions
            /\ Log = plain.m.log
            /\ last.expr = Chain3("Sub", "Sub", Int2, Int1, Int1) =>
                   last.res = Ok(Integer(0))
            /\ last.expr = Chain3("Sub", "Mul", Int2, Int1, Int2) =>
                   last.res = Ok(Integer(2))

\* (x = 2) - (x = 1) - x ran: x was assigned 2, then 1, then read as 1, the
\* value is (2 - 1) - 1 = 0 and x is 1 afterwards.
C11_Witness ==
    /\ Evaluated
    /\ last.expr = Chain3("Sub", "Sub", Assignment("x", Int2), Assignment("x", Int1),
                          Variable("x"))
    /\ Len(Operands(last.expr)) = 3
    /\ Len(Log) = 3
    /\ Log[1].ev = "set" /\ Log[1].val = Integer(2)
    /\ Log[2].ev = "set" /\ Log[2].val = Integer(1)
    /\ Log[3].ev = "get" /\ Log[3].res = Some(Integer(1))
    /\ last.res = Ok(Integer(0))
    /\ get_var(Context, "x") = Some(Integer(1))

\* Positions of the log where an error shows: a read of an unbound name, an
\* argument or a call that ended with an error.
Failures ==
    {k \in DOMAIN Log :
        \/ Log[k].ev = "get" /\ Log[k].res = None
        \/ Log[k].ev \in {"argdone", "return"} /\ ~Log[k].res.ok}

FirstFailure == CHOOSE k \in Failures : \A j \in Failures : k <= j

\* C12: an evaluation in which a step fails returns the error of the first
\* failing step, and after that step nothing is evaluated: the rest of the
\* log only closes the calls that were open (their scopes popped, the same
\* error returned), with no read, assignment, definition, argument, lookup,
\* binding or primitive.  An evaluation that returns a value has no failing
\* step.  So (x = 1) + u() + (x = 2) leaves x bound to 1, and
\* f(x = 1, u(), g() = f(), p = 2) changes neither g nor p.
C12_FirstErrorAborts ==
    Evaluated =>
        /\ last.res.ok => Failures = {}
        /\ Failures # {} =>
               /\ ~last.res.ok
               /\ Log[FirstFailure].ev = "get" =>
                      last.res = Err(UndefinedVariable(Log[FirstFailure].name))
               /\ Log[FirstFailure].ev # "get" => last.res = Log[FirstFailure].res
               /\ \A j \in DOMAIN Log :
                      j > FirstFailure =>
                          /\ Log[j].ev \in {"argdone", "pop", "return"}
                          /\ Log[j].ev # "pop" => Log[j].res = last.res
        /\ last.expr = Chain3("Add", "Add", Assignment("x", Int1), CallU,
                              Assignment("x", Int2)) =>
               /\ last.res = Err(UnknownFunction("u"))
               /\ scopes = set_var(Pre, "x", Integer(1)).scopes
               /\ functions = Pre.functions
        /\ last.expr = FunctionCall("f", <<Assignment("x", Int1), CallU, DefGCallF,
                                           Assignment("p", Int2)>>) =>
               /\ last.res = Err(UnknownFunction("u"))
               /\ scopes = set_var(Pre, "x", Integer(1)).scopes
               /\ functions = Pre.functions
        /\ last.expr = Chain2("Add", CallU, DefGCallF) =>
               /\ scopes = Pre.scopes
               /\ functions = Pre.functions

\* x = 2 - g() - (p = 0) ran with g undefined while p was bound to 1: g()
\* failed, so neither p nor x was assigned.
C12_Witness ==
    /\ Evaluated
    /\ last.expr = Assignment("x", Chain3("Sub", "Sub", Int2, FunctionCall("g", <<>>),
                                          Assignment("p", Int0)))
    /\ last.res = Err(UnknownFunction("g"))
    /\ get_var(Pre, "p") = Some(Integer(1))
    /\ get_var(Context, "p") = Some(Integer(1))
    /\ Failures # {}
    /\ Context = Pre

(***************************************************************************)
(* Properties of the numeric tower, stated on the record of the operation  *)
(* applied last.                                                           *)
(***************************************************************************)
Lhs == last.args[1]
Rhs == last.args[2]

IsNumber(x) == x.t \in {"Integer", "Rational", "Float", "Complex"}
Exact(x) == x.t \in {"Integer", "Rational"}

\* The numerator of an exact Number: its sign is the sign of the value.
Numer(x) == IF x.t = "Integer" THEN x.v ELSE x.n

\* C13: each of +, -, *, /, % and pow applied to two Numbers of any
\* variants, and negate applied to any Number, returns a Number: none of
\* them panics, on a zero right operand or in an unreachable!() arm.
C13_OperatorsTotal ==
    (last.op = "binary" \/ (last.op = "unary" /\ last.f = "Neg")) => IsNumber(last.res)

\* C14: an Integer divided by a nonzero Integer is the Rational, in lowest
\* terms, whose value is exactly a/b - also when b divides a - and
\* multiplying it by b, on either side, gives the Rational a/1.
C14_IntegerDivisionExact ==
    (last.op = "binary" /\ last.f = "Div"
        /\ Lhs.t = "Integer" /\ Rhs.t = "Integer" /\ Rhs.v # 0) =>
            /\ last.res.t = "Rational"
            /\ last.res.d > 0
            /\ last.res.n * Rhs.v = Lhs.v * last.res.d
            /\ Gcd(Abs(last.res.n), last.res.d) = 1
            /\ NumberMul(last.res, Rhs) = Rational(Lhs.v, 1)
            /\ NumberMul(Rhs, last.res) = Rational(Lhs.v, 1)

\* 2 / 2 was computed: the Rational 1/1.
C14_Witness ==
    /\ last.op = "binary"
    /\ last.f = "Div"
    /\ last.args = <<Integer(2), Integer(2)>>
    /\ last.res = Rational(1, 1)

\* C15: an Integer or Rational divided by a zero Integer or Rational is a
\* Float and not an error or a panic: +infinity for a positive dividend,
\* -infinity for a negative one, NaN for a zero one.
C15_DivisionByZeroIsFloat ==
    (last.op = "binary" /\ last.f = "Div"
        /\ Exact(Lhs) /\ Exact(Rhs) /\ Numer(Rhs) = 0) =>
            /\ last.res.t = "Float"
            /\ Numer(Lhs) > 0 => last.res = Float(Infinity(FALSE))
            /\ Numer(Lhs) < 0 => last.res = Float(Infinity(TRUE))
            /\ Numer(Lhs) = 0 => last.res = Float(NaN)

\* The Rational -1/2 was divided by the Integer 0: -infinity.
C15_Witness ==
    /\ last.op = "binary"
    /\ last.f = "Div"
    /\ last.args = <<Rational(0 - 1, 2), Integer(0)>>
    /\ last.res = Float(Infinity(TRUE))

\* C16: for +, - and *, when one operand is Complex and the other an
\* Integer, a Rational or a Float, in either order, promote returns two
\* Complex values and the result is Complex.
C16_ComplexPromotes ==
    (last.op = "binary" /\ last.f \in {"Add", "Sub", "Mul"}
        /\ ((Lhs.t = "Complex" /\ Rhs.t # "Complex")
              \/ (Lhs.t # "Complex" /\ Rhs.t = "Complex"))) =>
            /\ promote(Lhs, Rhs)[1].t = "Complex"
            /\ promote(Lhs, Rhs)[2].t = "Complex"
            /\ last.res.t = "Complex"

\* The variant two operands without a Complex are promoted to.
Common(l, r) ==
    IF "Float" \in {l.t, r.t} THEN "Float"
    ELSE IF "Rational" \in {l.t, r.t} THEN "Rational"
    ELSE "Integer"

\* C17: for operands that are Integer, Rational or Float, promote returns a
\* pair of one variant - Integer for two Integers, Rational for an Integer
\* with a Rational or two Rationals, Float when either is a Float - and +,
\* - and * return a Number of that variant.
C17_PromotionLadder ==
    (last.op = "binary" /\ last.f \in {"Add", "Sub", "Mul"}
        /\ Lhs.t # "Complex" /\ Rhs.t # "Complex") =>
            /\ promote(Lhs, Rhs)[1].t = Common(Lhs, Rhs)
            /\ promote(Lhs, Rhs)[2].t = Common(Lhs, Rhs)
            /\ last.res.t = Common(Lhs, Rhs)

\* 1 + 1/2 was computed: the Rational 3/2.
C17_Witness ==
    /\ last.op = "binary"
    /\ last.f = "Add"
    /\ last.args = <<Integer(1), Rational(1, 2)>>
    /\ last.res = Rational(3, 2)

\* C18: partial_cmp returns None whenever one of the operands is Complex.
C18_ComplexIncomparable ==
    (last.op = "compare" /\ "Complex" \in {Lhs.t, Rhs.t}) => last.res = None

RECURSIVE ProductTo(_)
\* 1 * 2 * ... * n
ProductTo(n) == IF n = 0 THEN 1 ELSE ProductTo(n - 1) * n

\* C19: factorial of an Integer n >= 0 is the Integer n! (1 for n = 0);
\* factorial of a negative Integer, of a Rational - whole or not -, of a
\* Float or of a Complex is a DomainError.
C19_FactorialDomain ==
    (last.op = "unary" /\ last.f = "Factorial") =>
        /\ (Lhs.t = "Integer" /\ Lhs.v >= 0) =>
               /\ last.res.ok
               /\ last.res.val = Integer(ProductTo(Lhs.v))
               /\ Lhs.v = 0 => last.res.val = Integer(1)
        /\ ~(Lhs.t = "Integer" /\ Lhs.v >= 0) =>
               /\ ~last.res.ok
               /\ last.res.val.e = "DomainError"

\* factorial was applied to the Rational 2/1, the value of 4/2.
C19_Witness ==
    /\ last.op = "unary"
    /\ last.f = "Factorial"
    /\ Lhs = NumberDiv(Integer(2), Integer(1))
    /\ Lhs = Rational(2, 1)
    /\ ~last.res.ok
    /\ last.res.val.e = "DomainError"

\* C20: pow of Integers b and e is the Integer b^e when e >= 0 (1 for
\* 0^0); when e < 0 it is the Rational of value 1/(b^|e|) if b # 0 and
\* the Float +infinity if b = 0.
C20_IntegerPower ==
    (last.op = "binary" /\ last.f = "Pow" /\ Lhs.t = "Integer" /\ Rhs.t = "Integer") =>
        /\ Rhs.v = 0 => last.res = Integer(1)
        /\ Rhs.v > 0 => last.res = Integer(Lhs.v ^ Rhs.v)
        /\ (Rhs.v < 0 /\ Lhs.v # 0) =>
               /\ last.res.t = "Rational"
               /\ last.res.d > 0
               /\ last.res.n * (Lhs.v ^ (0 - Rhs.v)) = last.res.d
        /\ (Rhs.v < 0 /\ Lhs.v = 0) => last.res = Float(Infinity(FALSE))

\* (-2)^(-3) was computed: the Rational -1/8.
C20_Witness ==
    /\ last.op = "binary"
    /\ last.f = "Pow"
    /\ last.args = <<Integer(0 - 2), Integer(0 - 3)>>
    /\ last.res = Rational(0 - 1, 8)

(***************************************************************************)
(* Properties of parse, stated on the record of the latest parse.          *)
(***************************************************************************)
ParsedSource == last.op = "parse"
Source == last.source

\* The tokens the lexer yields for an input.
Tokens(source) ==
    [i \in DOMAIN source |->
        fetch_next_token([item |-> Some(lex(source[i])), lexer |-> <<>>]).token]

\* The binding-power table read as precedence levels and associativity.
Level(lexeme) ==
    CASE lexeme \in {"+", "-"} -> 1
      [] lexeme \in {"*", "/", "%"} -> 2
      [] lexeme = "^" -> 3

OperatorOf(lexeme) ==
    CASE lexeme = "+" -> "Add" [] lexeme = "-" -> "Sub" [] lexeme = "*" -> "Mul"
      [] lexeme = "/" -> "Div" [] lexeme = "%" -> "Mod" [] lexeme = "^" -> "Pow"

AtomOf(lexeme) ==
    IF lexeme \in IdentifierLexemes THEN Variable(lexeme)
    ELSE Literal(Integer(IntegerLexemes[lexeme]))

IsAtom(lexeme) == lexeme \in IdentifierLexemes \cup DOMAIN IntegerLexemes

\* Operands joined by explicit binary operators.
IsOperatorChain(s) ==
    /\ Len(s) % 2 = 1
    /\ \A i \in DOMAIN s :
          IF i % 2 = 1 THEN IsAtom(s[i]) ELSE s[i] \in BinaryLexemes

\* The tree the table gives a chain: split at the operator that binds
\* least, the rightmost one of its level for + - * / %, the leftmost for ^.
RECURSIVE TableTree(_)
TableTree(s) ==
    IF Len(s) = 1 THEN AtomOf(s[1])
    ELSE LET ops == {i \in DOMAIN s : i % 2 = 0}
             low == CHOOSE l \in 1..3 :
                        /\ \E i \in ops : Level(s[i]) = l
                        /\ \A i \in ops : Level(s[i]) >= l
             at == {i \in ops : Level(s[i]) = low}
             k == IF low = 3
                  THEN CHOOSE i \in at : \A j \in at : i <= j
                  ELSE CHOOSE i \in at : \A j \in at : i >= j
         IN  BinaryOp(OperatorOf(s[k]), TableTree(SubSeq(s, 1, k - 1)),
                      TableTree(SubSeq(s, k + 1, Len(s))))

\* C21: for operands joined by explicit binary operators, parse builds the
\* tree of the binding-power table: ^ groups to the right, + - and * / %
\* group to the left, ^ binds tighter than * / %, and * / % bind tighter
\* than + -.
C21_BindingPowerTree ==
    /\ ParsedSource /\ IsOperatorChain(Source) =>
          last.res = Ok(TableTree(Source))
    /\ ParsedSource /\ Source = <<"a", "^", "b", "^", "c">> =>
          last.res = Ok(BinaryOp("Pow", Variable("a"),
                                 BinaryOp("Pow", Variable("b"), Variable("c"))))
    /\ ParsedSource /\ Source = <<"a", "-", "b", "-", "c">> =>
          last.res = Ok(BinaryOp("Sub",
                                 BinaryOp("Sub", Variable("a"), Variable("b")),
                                 Variable("c")))

C21_Witness ==
    /\ ParsedSource
    /\ Source = <<"a", "-", "b", "*", "c", "^", "d">>
    /\ last.res.ok
    /\ last.res.val.op = "Sub"

\* The tokens of an AST in source order, without the punctuation ( ) , and
\* without * (an implicit product has no token).
RECURSIVE Yield(_)
RECURSIVE YieldAll(_)
YieldAll(es) == IF es = <<>> THEN <<>> ELSE Yield(es[1]) \o YieldAll(Tail(es))

Yield(e) ==
    CASE e.k = "Literal" ->
            IF e.n.t = "Integer" THEN <<TokenInteger(e.n.v)>>
            ELSE <<TokenFloat(e.n.v)>>
      [] e.k = "Variable" -> <<TokenIdentifier(e.name)>>
      [] e.k = "BinaryOp" ->
            Yield(e.lhs)
                \o (CASE e.op = "Add" -> <<Token("Plus")>>
                      [] e.op = "Sub" -> <<Token("Minus")>>
                      [] e.op = "Mul" -> <<>>
                      [] e.op = "Div" -> <<Token("Divide")>>
                      [] e.op = "Mod" -> <<Token("Percent")>>
                      [] e.op = "Pow" -> <<Token("Power")>>)
                \o Yield(e.rhs)
      [] e.k = "UnaryOp" ->
            IF e.op = "Neg" THEN <<Token("Minus")>> \o Yield(e.expr)
            ELSE Yield(e.expr) \o <<Token("Factorial")>>
      [] e.k = "FunctionCall" -> <<TokenIdentifier(e.name)>> \o YieldAll(e.args)
      [] e.k = "Assignment" ->
            <<TokenIdentifier(e.name), Token("Equals")>> \o Yield(e.expr)
      [] e.k = "FunctionDef" ->
            <<TokenIdentifier(e.name)>>
                \o [i \in DOMAIN e.params |-> TokenIdentifier(e.params[i])]
                \o <<Token("Equals")>> \o Yield(e.body)

Significant(tokens) ==
    SelectSeq(tokens,
              LAMBDA t : t \notin {Token("LParen"), Token("RParen"), Token("Comma"),
                                   Token("Multiply")})

\* The outermost parse_bp call: it is the last to finish.
TopLevel == last.log[Len(last.log)]

\* C22: parse returns an Expr only if every token up to end-of-input was
\* consumed, and then the Expr accounts for every token; if a token remains
\* after a complete top-level expression, parse returns ParserError.
C22_AllTokensConsumed ==
    /\ ParsedSource /\ last.res.ok =>
          /\ last.taken = Len(Source)
          /\ last.current = Token("Eof")
          /\ TopLevel.ok /\ TopLevel.to = Len(Source)
          /\ Yield(last.res.val) = Significant(Tokens(Source))
    /\ ParsedSource /\ TopLevel.ok /\ TopLevel.to < Len(Source) =>
          /\ ~last.res.ok
          /\ last.res.val.e = "ParserError"
    /\ ParsedSource /\ Source \in {<<"1", "2">>, <<"1", ")">>} =>
          /\ TopLevel.ok /\ TopLevel.to = 1
          /\ last.res = Err(ParserError(<<"Unexpected token at end: ",
                                          Tokens(Source)[2]>>))

C22_Witness ==
    /\ ParsedSource
    /\ Source = <<"1", ")">>
    /\ TopLevel.ok /\ TopLevel.ev = "parse_bp" /\ TopLevel.to = 1
    /\ last.res = Err(ParserError(<<"Unexpected token at end: ", Token("RParen")>>))

\* The input from lexeme i to lexeme j.
Part(i, j) == SubSeq(Source, i, j)

\* The positions of an = that follows name ( arguments ): the input before
\* it is an identifier, a (, and parses as a call of that identifier.
DefinitionSigns ==
    {i \in DOMAIN Source :
        /\ Source[i] = "="
        /\ i > 3
        /\ Source[1] \in IdentifierLexemes
        /\ Source[2] = "("
        /\ parse(Part(1, i - 1)).ok
        /\ parse(Part(1, i - 1)).val.k = "FunctionCall"}

BareVariables(args) == \A k \in DOMAIN args : args[k].k = "Variable"

\* The arguments of a call written with the given argument forms.
RECURSIVE SplitArguments(_, _)
SplitArguments(s, acc) ==
    IF s = <<>> THEN <<acc>>
    ELSE IF s[1] = "," THEN <<acc>> \o SplitArguments(Tail(s), <<>>)
    ELSE SplitArguments(Tail(s), Append(acc, s[1]))

\* C23: when name ( arguments ) is followed by =, parse yields
\* FunctionDef(name, params, body) if and only if every parsed argument is a
\* bare Variable, and ParserError if any argument is anything else; with no
\* = after the list it yields FunctionCall(name, args).
C23_DefinitionOrCall ==
    /\ ParsedSource =>
          \A i \in DefinitionSigns :
              LET call == parse(Part(1, i - 1)).val
                  body == parse(Part(i + 1, Len(Source)))
              IN  /\ BareVariables(call.args) /\ body.ok =>
                        last.res
                          = Ok(FunctionDef(call.name,
                                           [k \in DOMAIN call.args |->
                                               call.args[k].name],
                                           body.val))
                  /\ ~BareVariables(call.args) =>
                        /\ ~last.res.ok
                        /\ last.res.val.e = "ParserError"
                        /\ body.ok =>
                              last.res.val.msg
                                = <<"Function parameters must be identifiers">>
                  /\ BareVariables(call.args) /\ ~body.ok => last.res = body
                  /\ (last.res.ok /\ last.res.val.k = "FunctionDef")
                        <=> (BareVariables(call.args) /\ body.ok)
    /\ ParsedSource /\ Source \in CallForms =>
          LET forms == IF Len(Source) = 3 THEN <<>>
                       ELSE SplitArguments(Part(3, Len(Source) - 1), <<>>)
          IN  last.res
                = Ok(FunctionCall("f", [k \in DOMAIN forms |->
                                           parse(forms[k]).val]))

C23_Witness ==
    /\ ParsedSource
    /\ Source = <<"f", "(", "a", ",", "g", "(", "a", ")", ")", "=", "a", "+", "1">>
    /\ DefinitionSigns = {10}
    /\ last.res = Err(ParserError(<<"Function parameters must be identifiers">>))

\* The positions where a complete term is directly followed by ( or by an
\* identifier: after a literal, a ) or a !, and an identifier after an
\* identifier.
Implicit(source) ==
    {i \in 2..Len(source) :
        /\ Tokens(source)[i].tok \in {"LParen", "Identifier"}
        /\ \/ Tokens(source)[i - 1].tok
                \in {"Integer", "Float", "RParen", "Factorial"}
           \/ /\ Tokens(source)[i - 1].tok = "Identifier"
              /\ Tokens(source)[i].tok = "Identifier"}

\* The input with an explicit * inserted before lexeme i.
WithProduct(source, i) ==
    SubSeq(source, 1, i - 1) \o <<"*">> \o SubSeq(source, i, Len(source))

\* The positions of an identifier directly followed by (.
Applied(source) ==
    {i \in 1..(Len(source) - 1) :
        /\ Tokens(source)[i].tok = "Identifier"
        /\ Tokens(source)[i + 1].tok = "LParen"}

Children(e) ==
    CASE e.k = "BinaryOp" -> <<e.lhs, e.rhs>>
      [] e.k = "UnaryOp" -> <<e.expr>>
      [] e.k = "FunctionCall" -> e.args
      [] e.k = "Assignment" -> <<e.expr>>
      [] e.k = "FunctionDef" -> <<e.body>>
      [] OTHER -> <<>>

\* The number of nodes of an AST that satisfy a test on (kind, op).
RECURSIVE CountNodes(_, _)
RECURSIVE CountAll(_, _)
CountAll(es, kinds) ==
    IF es = <<>> THEN 0
    ELSE CountNodes(es[1], kinds) + CountAll(Tail(es), kinds)

CountNodes(e, kinds) ==
    (IF <<e.k, IF e.k = "BinaryOp" THEN e.op ELSE "">> \in kinds THEN 1 ELSE 0)
        + CountAll(Children(e), kinds)

\* C24: where a complete left term is followed by ( or by an identifier the
\* parser builds a Mul node without an operator token, and the AST is the
\* AST of the input with an explicit * inserted there; an identifier
\* directly followed by ( is a call or a definition, never a product.
C24_ImplicitProduct ==
    /\ ParsedSource =>
          \A i \in Implicit(Source) : last.res = parse(WithProduct(Source, i))
    /\ ParsedSource /\ last.res.ok =>
          /\ CountNodes(last.res.val, {<<"BinaryOp", "Mul">>})
                = Cardinality(Implicit(Source))
                    + Cardinality({i \in DOMAIN Source : Source[i] = "*"})
          /\ CountNodes(last.res.val,
                        {<<"FunctionCall", "">>, <<"FunctionDef", "">>})
                = Cardinality(Applied(Source))

C24_Witness ==
    /\ ParsedSource
    /\ Source = <<"2", "f", "(", "a", ")", "(", "b", ")">>
    /\ Implicit(Source) = {2, 6}
    /\ last.res
          = Ok(BinaryOp("Mul",
                        BinaryOp("Mul", Literal(Integer(2)),
                                 FunctionCall("f", <<Variable("a")>>)),
                        Variable("b")))

\* The positions of the lexemes that no token rule matches.
Unmatched(source) == {i \in DOMAIN source : ~lex(source[i]).ok}

\* C25: if lexing the input produces an error token at any position, in
\* prefix position, in operator position, inside parentheses or inside an
\* argument list, parse returns ParserError and no AST.
C25_ErrorTokenRejected ==
    ParsedSource /\ Unmatched(Source) /= {} =>
        /\ \A i \in Unmatched(Source) : Tokens(Source)[i] = Token("Error")
        /\ ~last.res.ok
        /\ last.res.val.e = "ParserError"

C25_Witness ==
    /\ ParsedSource
    /\ Source = <<"f", "(", "a", "$", ")">>
    /\ Unmatched(Source) = {4}
    /\ last.current = Token("Error")
    /\ last.res
          = Err(ParserError(<<"Expected ',' or ')' in argument list">>))

Neg(e) == UnaryOp("Neg", e)

\* C26: prefix minus takes its operand with minimum binding power 9, above
\* the left binding power of every binary operator and below that of
\* postfix ! : -a op b is (-a) op b for every binary operator, -a! is
\* -(a!), and a op -b is a op (-b).
C26_PrefixMinus ==
    /\ ParsedSource =>
          \A op \in BinaryLexemes :
              /\ Source = <<"-", "a", op, "b">> =>
                    last.res = Ok(BinaryOp(OperatorOf(op), Neg(Variable("a")),
                                           Variable("b")))
              /\ Source = <<"a", op, "-", "b">> =>
                    last.res = Ok(BinaryOp(OperatorOf(op), Variable("a"),
                                           Neg(Variable("b"))))
    /\ ParsedSource /\ Source = <<"-", "a", "!">> =>
          last.res = Ok(Neg(UnaryOp("Factorial", Variable("a"))))
    /\ ParsedSource /\ Source = <<"-", "a", "!", "^", "b">> =>
          last.res = Ok(BinaryOp("Pow",
                                 Neg(UnaryOp("Factorial", Variable("a"))),
                                 Variable("b")))
    /\ ParsedSource /\ Source = <<"a", "^", "-", "b", "^", "c">> =>
          last.res = Ok(BinaryOp("Pow", Variable("a"),
                                 BinaryOp("Pow", Neg(Variable("b")),
                                          Variable("c"))))
    /\ ParsedSource /\ Source = <<"-", "-", "a">> =>
          last.res = Ok(Neg(Neg(Variable("a"))))

C26_Witness ==
    /\ ParsedSource
    /\ Source = <<"-", "a", "^", "b">>
    /\ last.res = Ok(BinaryOp("Pow", Neg(Variable("a")), Variable("b")))

\* The finished calls and iterations of one kind in the latest parse.
Steps(kind) == {k \in DOMAIN last.log : last.log[k].ev = kind}

\* C27: parse terminates: every parse_bp call and every iteration of the
\* operator loop and of the argument loop, the implicit product included,
\* takes at least one token or returns an error; at end-of-input the
\* operator loop starts no iteration and a call or an argument iteration
\* begun there returns an error, so that the calls and iterations of a
\* parse are bounded by the number of tokens.
C27_ParseTerminates ==
    ParsedSource =>
        /\ \A k \in DOMAIN last.log :
              /\ last.log[k].from <= last.log[k].to
              /\ last.log[k].to <= Len(Source)
              /\ last.log[k].ok => last.log[k].from < last.log[k].to
              /\ last.log[k].from = Len(Source) => ~last.log[k].ok
        /\ \A k \in Steps("operator_loop") : last.log[k].from < Len(Source)
        /\ \A j, k \in Steps("parse_bp") :
              j /= k /\ last.log[j].from = last.log[k].from =>
                  last.log[j].from = Len(Source)
        /\ \A j, k \in Steps("operator_loop") \cup Steps("arguments_loop") :
              j /= k /\ last.log[j].from = last.log[k].from =>
                  last.log[j].from = Len(Source)
        /\ Cardinality(Steps("parse_bp")) <= Len(Source) + 1
        /\ Cardinality(Steps("operator_loop")) <= Len(Source)
        /\ Cardinality(Steps("arguments_loop")) <= Len(Source)

C27_Witness ==
    /\ ParsedSource
    /\ Source = <<"f", "(", "a", "b", ",", "g", "(", "a", ")", ")">>
    /\ last.res.ok
    /\ \E k \in Steps("operator_loop") :
          /\ last.log[k].from = 3 /\ last.log[k].to = 4
          /\ last.res.val.args[1] = BinaryOp("Mul", Variable("a"), Variable("b"))
    /\ Cardinality(Steps("arguments_loop")) = 3
    /\ Cardinality(Steps("parse_bp")) = 5

(***************************************************************************)
(* Properties of recursive calls, stated on the log of the evaluation      *)
(* under way or just returned.                                             *)
(***************************************************************************)
Underway == last.op = "running"

\* The function bodies entered (push events) and still running at event k.
Running(k) ==
    {j \in At("push") :
        /\ j < k
        /\ \A p \in Of("pop", Log[j].cid) : p > k}

\* The innermost of them.
Innermost(k) == CHOOSE j \in Running(k) : \A i \in Running(k) : i <= j

\* The name of the function whose body was entered at push event j.
FrameName(j) == Log[Log[j].cid].name

\* The calls, made while a body of the same name is running, that found a
\* user function and passed as many arguments as it declares.
SelfCalls ==
    {k \in At("resolve") :
        /\ Running(k) /= {}
        /\ Log[k].name = FrameName(Innermost(k))
        /\ Log[k].entry /= None
        /\ Log[k].given = Len(Log[k].entry[1].params)}

\* The push events of the bodies entered directly from the body of j.
EnteredFrom(j) ==
    {i \in At("push") : Running(i) /= {} /\ Innermost(i) = j}

\* The bodies entered that made no call to themselves.
Ended == {j \in At("push") : \A k \in SelfCalls : Innermost(k) /= j}

\* Bodies that reach the call to f at every level, whatever x is.
AlwaysRecursive ==
    { CallF(<<VarX>>),
      FunctionCall("if", <<VarX, CallF(<<XMinus1>>), Int0>>),
      FunctionCall("if", <<Int0, CallF(<<XMinus1>>), Int1>>),
      BinaryOp("Add", Int1, CallF(<<VarX>>)),
      BinaryOp("Add", CallF(<<VarX>>), Int1) }

\* A call of f, of the arity f declares, while the body of f is one of them.
Diverging ==
    /\ last.expr \in {CallF(<<Int1>>), CallF(<<Int0>>),
                      BinaryOp("Add", Int1, CallF(<<Int1>>))}
    /\ "f" \in DOMAIN Pre.functions
    /\ Pre.functions["f"].body \in AlwaysRecursive

StepsAgree ==
    Evaluated =>
        /\ eval(last.expr, Pre).res = last.res
        /\ eval(last.expr, Pre).m.log = Log
        /\ eval(last.expr, Pre).m.scopes = scopes
        /\ eval(last.expr, Pre).m.functions = functions

\* The manager's AppState and its sessions.
App == state.data
Sessions == App.sessions

\* C29: from the default state, after any calls of create_session,
\* switch_session, delete_session and rename_session the manager holds at
\* least one session and current_session_id is the key of a session it
\* holds; delete_session on the only session returns false and leaves the
\* AppState and the file as they were, and a delete of the current session
\* that succeeds leaves current_session_id on another session that existed
\* before and still exists.
C29_CurrentSessionExists ==
    /\ Cardinality(DOMAIN Sessions) >= 1
    /\ App.current_session_id \in DOMAIN Sessions
    /\ \A id \in DOMAIN Sessions : Sessions[id].id = id
    /\ last.op = "delete_session" =>
          /\ Cardinality(DOMAIN last.pre.sessions) = 1 =>
                /\ last.res = FALSE
                /\ App = last.pre
                /\ disk = last.file
          /\ last.arg = last.pre.current_session_id
                /\ Cardinality(DOMAIN last.pre.sessions) > 1 =>
                /\ last.res = TRUE
                /\ last.arg \notin DOMAIN Sessions
                /\ App.current_session_id /= last.arg
                /\ App.current_session_id \in DOMAIN last.pre.sessions
                /\ App.current_session_id \in DOMAIN Sessions
                /\ disk = save(App)

C29_Witness ==
    /\ last.op = "delete_session"
    /\ last.res = TRUE
    /\ last.arg = last.pre.current_session_id
    /\ Cardinality(DOMAIN last.pre.sessions) = MaxSessions
    /\ App.current_session_id \in DOMAIN Sessions
    /\ \E id \in DOMAIN Sessions : Sessions[id].name = "A"

\* The threads inside a call, holding the guard.
Holders == {t \in Threads : threads[t].pc \in {"locked", "evaluated"}}

\* C30: a call holds the mutex from its first read to its last write: at
\* most one thread is inside a call and the AppState is what that thread
\* found or made; between an evaluate's read of the buffer and its
\* write-back the buffer and the history are as it read them; and every
\* evaluate that ended appended exactly one history entry, whose expression
\* is the buffer it found and whose result is the new buffer and
\* last_result.
C30_EvaluateSerial ==
    /\ Cardinality(Holders) <= 1
    /\ \A t \in Holders :
          /\ state.holder = Some(t)
          /\ [App EXCEPT !.sessions[App.current_session_id].context =
                            threads[t].pre[1].sessions[App.current_session_id].context]
                = threads[t].pre[1]
          /\ threads[t].pc = "evaluated" =>
                /\ threads[t].id = App.current_session_id
                /\ threads[t].expr = Sessions[threads[t].id].buffer
    /\ last.op = "evaluate" =>
          LET id == last.pre.current_session_id
              before == last.pre.sessions[id]
              after == Sessions[id]
          IN  /\ Len(after.history) = Len(before.history) + 1
              /\ SubSeq(after.history, 1, Len(before.history)) = before.history
              /\ after.history[Len(after.history)].expression = before.buffer
              /\ after.history[Len(after.history)].result = after.buffer
              /\ after.last_result = Some(after.buffer)
              /\ last.res = after.buffer

====
